---- MODULE Spec2Model ----
(***************************************************************************)
(* A model of the financial transformer recommendation engine:             *)
(*   - MetricsTracker (training/metrics.py): the metrics history and the   *)
(*     best-bundle bookkeeping;                                            *)
(*   - the multi-task loss combiner (training/lightning_module.py);        *)
(*   - the recommendation-quality metrics (training/metrics.py);           *)
(*   - the scoring model's construction, attention mask and persistence    *)
(*     (models/transformer_model.py).                                      *)
(* Real numbers are carried as exact integers in a stated unit or as       *)
(* numerator/denominator pairs; a Python dict is a function whose DOMAIN   *)
(* is its key set.                                                         *)
(***************************************************************************)
EXTENDS Integers, Sequences, FiniteSets, TLC

VARIABLES
    \* MetricsTracker
    epoch_metrics,      \* self.epoch_metrics: list of dicts
    best_metrics,       \* self.best_metrics: dict
    best_epoch,         \* self.best_epoch
    current_epoch,      \* the trainer's epoch counter handed to update()
    calls,              \* log of the (epoch, metrics) arguments of update()
    df,                 \* the frame last returned by get_metrics_dataframe()
    csv,                \* the frame last written by save_metrics()
    \* FinancialTransformerRecommendationEngine
    model,              \* the constructed model object
    fwd,                \* outcome of the last forward() call
    mask,               \* result of the last direct create_attention_mask() call
    checkpoint,         \* the file written by save_model()
    loaded,             \* outcome of the last load_model() call
    \* FinancialLightningModule: the loss combiner
    loss_weights,       \* self.loss_weights
    loss_call,          \* the loss method invoked and its arguments
    loss_pc,            \* "ready" before the call runs, "done" after
    loss_out,           \* what the call returned / computed
    \* FinancialMetrics.calculate_recommendation_metrics
    rec_call,           \* the arguments of the call
    rec_pc,             \* "ready" before the call runs, "done" after
    rec_metrics,        \* the metrics it returned
    \* FinancialMetrics.calculate_financial_performance_metrics
    fin_call,           \* the FinancialMetrics instance and the arguments of the call
    fin_pc,             \* "ready" before the call runs, "done" after
    fin_out,            \* how the call ended and what it returned
    \* FinancialMetrics.calculate_all_metrics
    all_call,           \* the arguments of the call
    all_pc,             \* "ready" before the call runs, "done" after
    all_out,            \* the bundle it returned
    \* construction from configuration names
    cfg_call,           \* the class constructed and the names passed
    cfg_pc,             \* "ready" before construction runs, "done" after
    cfg_out,            \* how construction and the first use of the names ended
    \* RiskAwareRecommendationHead.forward
    head_call,          \* the outputs of the four head stacks for the batch x
    head_pc,            \* "ready" before forward runs, "done" after
    head_out,           \* the dictionary forward returned
    \* calculate_all_metrics called twice with the same objects
    rep_call,           \* the arguments, as the caller built them before the first call
    rep_arrays,         \* the contents of the caller's return and weight arrays now
    rep_pc,             \* "first", "second" (which call is next) or "done"
    rep_out,            \* the bundles the calls returned, in order
    \* FinancialLightningModule: learning-rate warmup
    warm_cfg,           \* learning_rate, warmup_epochs and optimizer of the module
    warm_pc,            \* "constructed" before configure_optimizers, "training" after, "idle" if not part of the run
    warm_epoch,         \* trainer.current_epoch
    warm_lr,            \* param_group["lr"] of the optimizer's groups, in order
    \* FinancialLightningModule: validation and test epochs
    val_cfg,            \* monitor_metric and mode of the module
    val_pc,             \* "running", "crashed" after a hook raised, "idle" if not part of the run
    val_outputs,        \* the outputs validation_step / test_step returned this epoch
    best_metric_value,  \* self.best_metric_value
    val_last,           \* the last epoch-end hook that ran and how it ended
    \* FinancialDataset / FinancialDataPreprocessor: sequences and splits
    data_call,          \* the operation and the configuration it runs with
    data_pc,            \* "ready" before the call runs, "done" after
    data_out            \* what the call returned or raised

trackerVars == <<epoch_metrics, best_metrics, best_epoch, current_epoch, calls, df, csv>>
modelVars == <<model, fwd, mask, checkpoint, loaded>>
lossVars == <<loss_weights, loss_call, loss_pc, loss_out>>
recVars == <<rec_call, rec_pc, rec_metrics>>
finVars == <<fin_call, fin_pc, fin_out>>
allVars == <<all_call, all_pc, all_out>>
cfgVars == <<cfg_call, cfg_pc, cfg_out>>
headVars == <<head_call, head_pc, head_out>>
repVars == <<rep_call, rep_arrays, rep_pc, rep_out>>
warmVars == <<warm_cfg, warm_pc, warm_epoch, warm_lr>>
valVars == <<val_cfg, val_pc, val_outputs, best_metric_value, val_last>>
dataVars == <<data_call, data_pc, data_out>>

vars == <<trackerVars, modelVars, lossVars, recVars, finVars, allVars, cfgVars, headVars, repVars, warmVars, valVars, dataVars>>

(***************************************************************************)
(* Bounds of the model.                                                    *)
(***************************************************************************)
MaxUpdates == 2         \* number of MetricsTracker.update calls explored
MaxMetric == 2          \* metric values range over 1..MaxMetric
MaxDModel == 8          \* embedding widths range over 1..MaxDModel
MaxSeqLen == 3          \* sequence lengths of forward()/mask calls: 1..MaxSeqLen
MaxLoss == 4            \* component loss values range over 1..MaxLoss
MaxBatch == 2           \* batch sizes of the regime inference: 1..MaxBatch
MaxAssets == 3          \* asset counts of score vectors: 2..MaxAssets
MaxCells == 6           \* batch size * asset count of a score tensor is <= MaxCells
MaxPeriods == 3         \* lengths of return series and weight arrays: up to MaxPeriods
MaxWarmup == 3          \* warmup_epochs: 0..MaxWarmup
MaxEpochs == 4          \* training epochs run: 0..MaxEpochs
MaxRows == 5            \* rows of the processed data: 0..MaxRows; sequences split: 0..2*MaxRows

(***************************************************************************)
(* Python dict helpers.                                                    *)
(***************************************************************************)
EmptyDict == <<>>

\* d.get(k, default)
DictGet(d, k, default) == IF k \in DOMAIN d THEN d[k] ELSE default

\* {**a, **b}: the keys of both, b's value where both have the key
DictMerge(a, b) ==
    [k \in (DOMAIN a) \cup (DOMAIN b) |-> IF k \in DOMAIN b THEN b[k] ELSE a[k]]

\* every dict over a subset of keys K with values in V
Dicts(K, V) == UNION {[S -> V] : S \in SUBSET K}

\* str.replace(old, new) for a non-empty old: every non-overlapping occurrence,
\* leftmost first
RECURSIVE StrReplace(_, _, _)
StrReplace(str, old, new) ==
    IF Len(str) < Len(old) THEN str
    ELSE IF SubSeq(str, 1, Len(old)) = old
         THEN new \o StrReplace(SubSeq(str, Len(old) + 1, Len(str)), old, new)
         ELSE SubSeq(str, 1, 1) \o StrReplace(SubSeq(str, 2, Len(str)), old, new)

(***************************************************************************)
(* MetricsTracker                                                          *)
(***************************************************************************)
\* float("-inf"): below every metric value of the model
NegInf == -1000
\* the 0.0 default of metrics.get("f1", 0.0)
ZeroMetric == 0
\* a missing cell of a pandas DataFrame
NaN == "NaN"
\* no frame built / written yet
NoFrame == [built |-> FALSE, rows |-> <<>>]

MetricKeys == {"sharpe_ratio", "f1"}
MetricVals == 1..MaxMetric
Bundles == Dicts(MetricKeys, MetricVals)

\* primary_metric = metrics.get("sharpe_ratio", metrics.get("f1", 0.0))
PrimaryMetric(metrics) ==
    DictGet(metrics, "sharpe_ratio", DictGet(metrics, "f1", ZeroMetric))

\* the value update() compares the new primary metric against
BestReference(best) == DictGet(best, "sharpe_ratio", NegInf)

\* the entry update() appends: {"epoch": epoch, **metrics}
Entry(epoch, metrics) == DictMerge([epoch |-> epoch], metrics)

\* list.insert(0, e)
ListInsertFront(list, e) == <<e>> \o list
\* list.append(e)
ListAppend(list, e) == Append(list, e)

\* pd.DataFrame(list_of_dicts): one row per dict, one column per key that
\* occurs in any dict, NaN where a dict lacks the key
DataFrame(rows) ==
    LET cols == UNION {DOMAIN rows[i] : i \in 1..Len(rows)}
    IN  [built |-> TRUE,
         rows |-> [i \in 1..Len(rows) |->
            [c \in cols |-> IF c \in DOMAIN rows[i] THEN rows[i][c] ELSE NaN]]]

TrackerInit ==
    /\ epoch_metrics = <<>>
    /\ best_metrics = EmptyDict
    /\ best_epoch = 0
    /\ current_epoch = 0
    /\ calls = <<>>
    /\ df = NoFrame
    /\ csv = NoFrame

\* MetricsTracker.update(epoch, metrics), called once per epoch with the
\* trainer's current epoch
Update(metrics) ==
    LET epoch == current_epoch
        primary_metric == PrimaryMetric(metrics)
    IN  /\ Len(calls) < MaxUpdates
        /\ epoch_metrics' = ListAppend(epoch_metrics, Entry(epoch, metrics))
        /\ IF best_metrics = EmptyDict \/ primary_metric > BestReference(best_metrics)
           THEN /\ best_metrics' = metrics
                /\ best_epoch' = epoch
           ELSE UNCHANGED <<best_metrics, best_epoch>>
        /\ current_epoch' = current_epoch + 1
        /\ calls' = Append(calls, <<epoch, metrics>>)
        /\ UNCHANGED <<df, csv>>

\* MetricsTracker.get_metrics_dataframe()
GetMetricsDataframe ==
    /\ df' = DataFrame(epoch_metrics)
    /\ UNCHANGED <<epoch_metrics, best_metrics, best_epoch, current_epoch, calls, csv>>

\* MetricsTracker.save_metrics(filepath)
SaveMetrics ==
    /\ csv' = DataFrame(epoch_metrics)
    /\ UNCHANGED <<epoch_metrics, best_metrics, best_epoch, current_epoch, calls, df>>

TrackerNext ==
    \/ \E metrics \in Bundles : Update(metrics) /\ UNCHANGED <<modelVars, lossVars, recVars, finVars, allVars, cfgVars, headVars, repVars, warmVars, valVars, dataVars>>
    \/ GetMetricsDataframe /\ UNCHANGED <<modelVars, lossVars, recVars, finVars, allVars, cfgVars, headVars, repVars, warmVars, valVars, dataVars>>
    \/ SaveMetrics /\ UNCHANGED <<modelVars, lossVars, recVars, finVars, allVars, cfgVars, headVars, repVars, warmVars, valVars, dataVars>>

(***************************************************************************)
(* FinancialTransformerRecommendationEngine and FinancialFeatureEncoder    *)
(***************************************************************************)
\* defaults of FinancialTransformerRecommendationEngine.__init__
DefaultDModel == 512
DefaultNHead == 8
DefaultLayers == 6
DefaultFeedforward == 2048
DefaultDropoutPct == 10         \* dropout=0.1, in percent
DefaultNumAssets == 1000
DefaultSeqLen == 60
DefaultRiskFactors == 5

\* trailing dimension of each feature group's input (in_features of the first
\* Linear of its encoder)
InputDims == [price |-> 1, volume |-> 1, technical |-> 20, fundamental |-> 15]

\* the keyword arguments of __init__
ParamNames == {"d_model", "nhead", "num_encoder_layers", "dim_feedforward",
               "dropout", "num_assets", "sequence_length", "num_risk_factors"}

Defaults ==
    [d_model |-> DefaultDModel, nhead |-> DefaultNHead,
     num_encoder_layers |-> DefaultLayers, dim_feedforward |-> DefaultFeedforward,
     dropout |-> DefaultDropoutPct, num_assets |-> DefaultNumAssets,
     sequence_length |-> DefaultSeqLen, num_risk_factors |-> DefaultRiskFactors]

\* cls(**config): the given keywords, the default for every other parameter
WithDefaults(config) == DictMerge(Defaults, config)

\* out_features of the four feature encoders (FinancialFeatureEncoder.__init__)
EncoderWidths(d_model) ==
    [price |-> d_model \div 4, volume |-> d_model \div 4,
     technical |-> d_model \div 2, fundamental |-> d_model \div 4]

\* in_features of the fusion layer: nn.Linear(d_model, d_model)
FusionInWidth(d_model) == d_model

\* torch.cat([...], dim=-1): the width of the concatenation
ConcatWidth(widths) ==
    widths.price + widths.volume + widths.technical + widths.fundamental

\* construction succeeds: PositionalEncoding fills pe[:, 0::2] and pe[:, 1::2]
\* from the same div_term (d_model must be even), and nn.MultiheadAttention
\* requires embed_dim divisible by num_heads
ConstructOk(p) ==
    /\ p.d_model >= 1
    /\ p.d_model % 2 = 0
    /\ p.nhead >= 1
    /\ p.d_model % p.nhead = 0

\* the object __init__ builds: the three attributes it stores, the architecture
\* its submodules are built with, and the feature encoder's layer widths
Construct(p) ==
    [d_model |-> p.d_model, num_assets |-> p.num_assets,
     sequence_length |-> p.sequence_length,
     arch |-> p,
     encoder |-> EncoderWidths(p.d_model),
     fusion_in |-> FusionInWidth(p.d_model)]

\* the tensor names and shapes of state_dict(): what load_state_dict compares
StateDictShapes(m) ==
    [d_model |-> m.arch.d_model,
     num_encoder_layers |-> m.arch.num_encoder_layers,
     dim_feedforward |-> m.arch.dim_feedforward,
     num_assets |-> m.arch.num_assets,
     num_risk_factors |-> m.arch.num_risk_factors]

\* torch.triu(torch.ones(n, n), diagonal): 1 where j - i >= diagonal, else 0
Triu(n, diagonal) ==
    [ij \in (0..(n - 1)) \X (0..(n - 1)) |->
        IF ij[2] - ij[1] >= diagonal THEN 1 ELSE 0]

\* mask.masked_fill(mask == 1, value)
MaskedFill(m, value) == [ij \in DOMAIN m |-> IF m[ij] = 1 THEN value ELSE m[ij]]

\* create_attention_mask(sequence_length, device)
CreateAttentionMaskDiag0(sequence_length) ==
    MaskedFill(Triu(sequence_length, 0), NegInf)
CreateAttentionMask(sequence_length) ==
    MaskedFill(Triu(sequence_length, 1), NegInf)

\* construction parameters explored: every accepted d_model and nhead, with
\* the other six parameters all at their defaults, all away from them, or
\* exactly one away from its default
ParamChoices ==
    {p \in [d_model : 1..MaxDModel,
            nhead : {1, 2, DefaultNHead},
            num_encoder_layers : {1, DefaultLayers},
            dim_feedforward : {16, DefaultFeedforward},
            dropout : {0, DefaultDropoutPct},
            num_assets : {3, DefaultNumAssets},
            sequence_length : {2, DefaultSeqLen},
            num_risk_factors : {2, DefaultRiskFactors}] :
        /\ ConstructOk(p)
        /\ Cardinality({n \in ParamNames \ {"d_model", "nhead"} : p[n] # Defaults[n]})
              \in {0, 1, 6}}

NoModel == [d_model |-> 0, num_assets |-> 0, sequence_length |-> 0,
            arch |-> [n \in ParamNames |-> 0],
            encoder |-> EncoderWidths(0), fusion_in |-> 0]
\* the four feature groups, in the order FinancialFeatureEncoder.forward
\* projects them
GroupOrder == <<"price", "volume", "technical", "fundamental">>
Groups == {GroupOrder[i] : i \in 1..Len(GroupOrder)}

\* the shapes of the four tensors handed to forward(): size(1) and size(-1) of
\* each; the batch dimension is the same positive number in all four
NoInput == [time |-> [g \in Groups |-> 0], feat |-> [g \in Groups |-> 0]]
NoForward == [status |-> "none", input |-> NoInput, seq_len |-> 0, concat_width |-> 0,
              projected |-> {}, mask_built |-> FALSE, mask |-> <<>>]
NoMask == [built |-> FALSE, seq_len |-> 0, m |-> <<>>]
NoCheckpoint == [saved |-> FALSE, model_config |-> <<>>, state_dict |-> <<>>]
NoLoad == [status |-> "none", model |-> NoModel]

\* no model object exists (the scoring model is not part of the run)
ModelIdle ==
    /\ model = NoModel
    /\ fwd = NoForward
    /\ mask = NoMask
    /\ checkpoint = NoCheckpoint
    /\ loaded = NoLoad

\* the state after FinancialTransformerRecommendationEngine(**p)
ModelInit ==
    /\ \E p \in ParamChoices : model = Construct(p)
    /\ fwd = NoForward
    /\ mask = NoMask
    /\ checkpoint = NoCheckpoint
    /\ loaded = NoLoad

\* the groups FinancialFeatureEncoder.forward projects before the first Linear
\* of some group rejects its input's trailing dimension: all four when none does
ProjectedGroups(input) ==
    {GroupOrder[i] : i \in {k \in 1..Len(GroupOrder) :
        \A j \in 1..k : input.feat[GroupOrder[j]] = InputDims[GroupOrder[j]]}}

\* torch.cat(..., dim=-1) accepts the four embeddings: equal time dimensions
CatOk(input) == \A g, h \in Groups : input.time[g] = input.time[h]

\* forward(price_data, volume_data, technical_data, fundamental_data):
\* seq_len from price_data, the four projections in order, torch.cat, the
\* fusion layer, the positional encoding, the mask, the transformer and the
\* last-time-step lookup transformer_output[:, -1, :], the heads
ForwardResult(m, input) ==
    LET seq_len == input.time["price"]
        projected == ProjectedGroups(input)
        combined == ConcatWidth(m.encoder)
        started == [status |-> "none", input |-> input, seq_len |-> seq_len,
                    concat_width |-> 0, projected |-> projected,
                    mask_built |-> FALSE, mask |-> <<>>]
    IN  IF projected # Groups
        THEN [started EXCEPT !.status = "dim_error"]
        ELSE IF ~CatOk(input)
        THEN [started EXCEPT !.status = "cat_error"]
        ELSE IF combined # m.fusion_in
        THEN [started EXCEPT !.status = "shape_error", !.concat_width = combined]
        ELSE IF seq_len = 0
        THEN [started EXCEPT !.status = "index_error", !.concat_width = combined,
                             !.mask_built = TRUE, !.mask = CreateAttentionMask(seq_len)]
        ELSE [started EXCEPT !.status = "ok", !.concat_width = combined,
                             !.mask_built = TRUE, !.mask = CreateAttentionMask(seq_len)]

Forward(input) ==
    /\ fwd' = ForwardResult(model, input)
    /\ UNCHANGED <<model, mask, checkpoint, loaded>>

\* input shapes explored: every group with the configured trailing dimension
\* and time dimension seq_len, and the same with one group's time dimension or
\* trailing dimension one larger
ShapedInput(seq_len) == [time |-> [g \in Groups |-> seq_len], feat |-> InputDims]
ForwardInputs ==
    UNION {{ShapedInput(n)}
           \cup {[ShapedInput(n) EXCEPT !.time[g] = n + 1] : g \in Groups}
           \cup {[ShapedInput(n) EXCEPT !.feat[g] = InputDims[g] + 1] : g \in Groups} :
           n \in 0..MaxSeqLen}

\* a direct call of create_attention_mask(seq_len, device)
CallCreateAttentionMask(seq_len) ==
    /\ mask' = [built |-> TRUE, seq_len |-> seq_len, m |-> CreateAttentionMask(seq_len)]
    /\ UNCHANGED <<model, fwd, checkpoint, loaded>>

\* the "model_config" dict save_model() writes
SavedConfig(m) ==
    [d_model |-> m.d_model, num_assets |-> m.num_assets,
     sequence_length |-> m.sequence_length]

\* save_model(path)
SaveModel ==
    /\ checkpoint' = [saved |-> TRUE,
                      model_config |-> SavedConfig(model),
                      state_dict |-> StateDictShapes(model)]
    /\ UNCHANGED <<model, fwd, mask, loaded>>

\* load_model(path): cls(**config), then load_state_dict (strict)
LoadModel ==
    /\ checkpoint.saved
    /\ LET p == WithDefaults(checkpoint.model_config)
           built == Construct(p)
       IN  loaded' =
             IF ~ConstructOk(p)
             THEN [status |-> "construct_error", model |-> NoModel]
             ELSE IF StateDictShapes(built) # checkpoint.state_dict
             THEN [status |-> "state_dict_error", model |-> NoModel]
             ELSE [status |-> "ok", model |-> built]
    /\ UNCHANGED <<model, fwd, mask, checkpoint>>

ModelNext ==
    \/ \E input \in ForwardInputs : Forward(input) /\ UNCHANGED <<trackerVars, lossVars, recVars, finVars, allVars, cfgVars, headVars, repVars, warmVars, valVars, dataVars>>
    \/ \E seq_len \in 1..MaxSeqLen :
          CallCreateAttentionMask(seq_len) /\ UNCHANGED <<trackerVars, lossVars, recVars, finVars, allVars, cfgVars, headVars, repVars, warmVars, valVars, dataVars>>
    \/ SaveModel /\ UNCHANGED <<trackerVars, lossVars, recVars, finVars, allVars, cfgVars, headVars, repVars, warmVars, valVars, dataVars>>
    \/ LoadModel /\ UNCHANGED <<trackerVars, lossVars, recVars, finVars, allVars, cfgVars, headVars, repVars, warmVars, valVars, dataVars>>

(***************************************************************************)
(* FinancialLightningModule: the multi-task loss combiner.                 *)
(* Loss weights are in tenths (1.0 = 10), component losses in whole units, *)
(* so a total loss is in tenths. Target means and standard deviations are  *)
(* in units of 0.001. Scores of a prediction or target vector are distinct *)
(* integers.                                                               *)
(***************************************************************************)
\* the weights __init__ falls back to
DefaultLossWeights == [recommendation |-> 10, confidence |-> 3, risk |-> 2, regime |-> 1]
\* self.loss_weights.get(weight_key, 1.0)
FallbackWeight == 10

WeightKeys == {"recommendation", "confidence", "risk", "regime"}

\* loss_weights arguments explored: None (the empty dict stands for it: both
\* are falsy), every full dict over {0.0, 2.0}, and a partial dict
LossWeightArgs ==
    {EmptyDict} \cup [WeightKeys -> {0, 20}] \cup {[recommendation |-> 20]}

\* self.loss_weights = loss_weights or {...}
InitLossWeights(arg) == IF arg = EmptyDict THEN DefaultLossWeights ELSE arg

\* the order in which _compute_total_loss inserts the component losses
LossOrder == <<"recommendation_loss", "confidence_loss", "risk_loss", "regime_loss">>
ComponentNames == {LossOrder[i] : i \in 1..Len(LossOrder)}

\* the model output whose presence decides each component
OutputFor ==
    [recommendation_loss |-> "recommendations", confidence_loss |-> "confidence",
     risk_loss |-> "risk_scores", regime_loss |-> "regime_probs"]

\* weight_key = loss_name.replace("_loss", "")
WeightKeyUnstripped(loss_name) == loss_name
WeightKey(loss_name) == StrReplace(loss_name, "_loss", "")

\* the non-finite values a loss scalar can take, as integers outside the range
\* of every finite loss of the model: +inf, -inf and nan
LossInf == 100000
LossNegInf == -100000
LossNaN == 200000
NonFinite == {LossInf, LossNegInf, LossNaN}
IsFinite(x) == x \notin NonFinite

\* weight * loss_value: a Python float times a scalar tensor (IEEE 754)
FloatMulZeroAbsorbs(w, x) ==
    IF w = 0 THEN 0
    ELSE IF x = LossNaN THEN LossNaN
    ELSE IF x \in {LossInf, LossNegInf} THEN (IF w > 0 THEN x ELSE 0 - x)
    ELSE w * x
FloatMul(w, x) ==
    IF x = LossNaN THEN LossNaN
    ELSE IF x \in {LossInf, LossNegInf}
         THEN (IF w = 0 THEN LossNaN ELSE IF w > 0 THEN x ELSE 0 - x)
    ELSE w * x

\* total_loss += ...: the sum of two scalars (IEEE 754)
FloatAdd(a, b) ==
    IF a = LossNaN \/ b = LossNaN THEN LossNaN
    ELSE IF {a, b} = {LossInf, LossNegInf} THEN LossNaN
    ELSE IF a \in NonFinite THEN a
    ELSE IF b \in NonFinite THEN b
    ELSE a + b

\* the loop "for loss_name, loss_value in losses.items(): total_loss += ..."
\* over the names in insertion order, starting from 0.0
RECURSIVE WeightedTotal(_, _, _)
WeightedTotal(order, losses, weights) ==
    IF order = <<>> THEN 0
    ELSE FloatAdd(WeightedTotal(SubSeq(order, 1, Len(order) - 1), losses, weights),
                  FloatMul(DictGet(weights, WeightKey(order[Len(order)]), FallbackWeight),
                           losses[order[Len(order)]]))

\* _compute_total_loss(model_outputs, targets): outputs is the key set of
\* model_outputs, component[name] the value the component's method returns
ComputeTotalLossResult(outputs, component, weights) ==
    LET present == {n \in ComponentNames : OutputFor[n] \in outputs}
        losses == [n \in present |-> component[n]]
        order == SelectSeq(LossOrder, LAMBDA n : n \in present)
    IN  DictMerge(losses, [total_loss |-> WeightedTotal(order, losses, weights)])

\* thresholds of the regime inference, in units of 0.001
BullMeanThreshold == 1
BullStdThreshold == 30
BearMeanThreshold == -1
BearStdThreshold == 20

\* bull_mask = (target_mean > 0.001) & (target_std < 0.03)
BullMaskInclusive(stats) ==
    [i \in 1..Len(stats) |->
        stats[i].mean >= BullMeanThreshold /\ stats[i].std < BullStdThreshold]
BullMask(stats) ==
    [i \in 1..Len(stats) |->
        stats[i].mean > BullMeanThreshold /\ stats[i].std < BullStdThreshold]

\* bear_mask = (target_mean < -0.001) & (target_std > 0.02)
BearMask(stats) ==
    [i \in 1..Len(stats) |->
        stats[i].mean < BearMeanThreshold /\ stats[i].std > BearStdThreshold]

\* sideways_mask = ~(bull_mask | bear_mask)
SidewaysMask(bull_mask, bear_mask) ==
    [i \in 1..Len(bull_mask) |-> ~(bull_mask[i] \/ bear_mask[i])]

\* labels[mask] = value
MaskedAssign(labels, msk, value) ==
    [i \in 1..Len(labels) |-> IF msk[i] THEN value ELSE labels[i]]

\* the regime_labels tensor _calculate_regime_loss builds from the per-sample
\* mean and standard deviation of the targets
RegimeLabels(stats) ==
    LET zeros == [i \in 1..Len(stats) |-> 0]
        bull_mask == BullMask(stats)
        bear_mask == BearMask(stats)
        with_bull == MaskedAssign(zeros, bull_mask, 0)
        with_bear == MaskedAssign(with_bull, bear_mask, 1)
    IN  MaskedAssign(with_bear, SidewaysMask(bull_mask, bear_mask), 2)

\* torch.argsort(x, descending=True) of a tie-free vector: the 0-based indices
\* of x's entries, largest entry first
ArgsortDescending(x) ==
    [pos \in 1..Len(x) |->
        (CHOOSE j \in 1..Len(x) :
            Cardinality({k \in 1..Len(x) : x[k] > x[j]}) = pos - 1) - 1]

\* ((a - b) ** 2).sum()
RECURSIVE SumSquaredDiff(_, _)
SumSquaredDiff(a, b) ==
    IF a = <<>> THEN 0
    ELSE (a[1] - b[1]) * (a[1] - b[1]) + SumSquaredDiff(Tail(a), Tail(b))

\* the term one sample adds to ranking_loss: 1 - spearman_corr
\*   = 6 * d_squared / (n * (n**2 - 1)), kept as numerator and denominator
RankingTerm(prediction, target) ==
    LET pred_ranks == ArgsortDescending(prediction)
        target_ranks == ArgsortDescending(target)
        n == Len(pred_ranks)
        d_squared == SumSquaredDiff(pred_ranks, target_ranks)
    IN  [num |-> 6 * d_squared, den |-> n * (n * n - 1)]

RECURSIVE SeqSum(_)
SeqSum(q) == IF q = <<>> THEN 0 ELSE q[1] + SeqSum(Tail(q))

\* _calculate_recommendation_loss(predictions, targets, confidence): the
\* per-sample ranking terms and the returned loss
\*   (mse + 0.1 * ranking_loss) * mean(1 + 0.5 * confidence)
\* as an exact fraction; confidence is <<>> for None, else one value in
\* {0, 1} per sample
RecommendationLoss(predictions, targets, confidence) ==
    LET batch_size == Len(predictions)
        n == Len(predictions[1])
        terms == [i \in 1..batch_size |-> RankingTerm(predictions[i], targets[i])]
        squared == SeqSum([i \in 1..batch_size |->
                              SumSquaredDiff(predictions[i], targets[i])])
        ranking == SeqSum([i \in 1..batch_size |-> terms[i].num])
        num == 10 * (n * n - 1) * squared + ranking
        den == 10 * batch_size * n * (n * n - 1)
    IN  [terms |-> terms,
         loss |-> IF confidence = <<>>
                  THEN [num |-> num, den |-> den]
                  ELSE [num |-> num * (2 * batch_size + SeqSum(confidence)),
                        den |-> den * 2 * batch_size]]

\* ---- _calculate_confidence_loss ----
\* confidence values are held as multiples of 1 / ConfidenceUnit
ConfidenceUnit == 4

\* torch.abs(predictions - targets).sum(dim=-1) of one sample, undivided
SumAbsError(prediction, target) ==
    [num |-> SeqSum([a \in 1..Len(prediction) |->
                        IF prediction[a] >= target[a] THEN prediction[a] - target[a]
                        ELSE target[a] - prediction[a]]),
     den |-> 1]

\* torch.abs(predictions - targets).mean(dim=-1) of one sample
MeanAbsError(prediction, target) ==
    [num |-> SumAbsError(prediction, target).num, den |-> Len(prediction)]

\* 1.0 / (1.0 + errors)
TargetConfidence(error) == [num |-> error.den, den |-> error.den + error.num]

\* (confidence - target_confidence) ** 2 of one sample
SquaredError(confidence, target_confidence) ==
    LET diff == confidence * target_confidence.den - ConfidenceUnit * target_confidence.num
    IN  [num |-> diff * diff,
         den |-> (ConfidenceUnit * target_confidence.den) * (ConfidenceUnit * target_confidence.den)]

\* the sum of a sequence of fractions
RECURSIVE FracSum(_)
FracSum(fs) ==
    IF fs = <<>> THEN [num |-> 0, den |-> 1]
    ELSE LET rest == FracSum(Tail(fs))
         IN  [num |-> Head(fs).num * rest.den + rest.num * Head(fs).den,
              den |-> Head(fs).den * rest.den]

\* F.mse_loss(confidence, target_confidence) for confidence of shape [batch, 1]
ConfidenceLoss(confidence, predictions, targets) ==
    LET batch_size == Len(predictions)
        target_confidence ==
            [i \in 1..batch_size |-> TargetConfidence(MeanAbsError(predictions[i], targets[i]))]
        squared == [i \in 1..batch_size |-> SquaredError(confidence[i], target_confidence[i])]
        total == FracSum(squared)
    IN  [target_confidence |-> target_confidence,
         squared |-> squared,
         loss |-> [num |-> total.num, den |-> total.den * batch_size]]

\* ---- inputs explored ----
LossValues == 1..MaxLoss
OptionalOutputs == {"confidence", "risk_scores", "regime_probs"}

TotalLossCalls ==
    UNION {{[op |-> "compute_total_loss", outputs |-> {"recommendations"} \cup o,
             component |-> c] :
              c \in [{n \in ComponentNames : OutputFor[n] \in {"recommendations"} \cup o}
                        -> LossValues]} :
           o \in SUBSET OptionalOutputs}

\* calls in which at least one component loss is non-finite
NonFiniteLossCalls ==
    UNION {{[op |-> "compute_total_loss", outputs |-> {"recommendations"} \cup o,
             component |-> c] :
              c \in {f \in [{n \in ComponentNames : OutputFor[n] \in {"recommendations"} \cup o}
                              -> {1} \cup NonFinite] :
                         \E n \in DOMAIN f : ~IsFinite(f[n])}} :
           o \in SUBSET OptionalOutputs}

TargetMeans == {-5, -1, 0, 1, 5}
TargetStds == {10, 20, 30, 50}
TargetStats == [mean : TargetMeans, std : TargetStds]

RegimeCalls ==
    {[op |-> "regime_loss", stats |-> st] :
        st \in UNION {[1..b -> TargetStats] : b \in 1..MaxBatch}}

\* tie-free score vectors over n assets
ScoreVectors(n) == {v \in [1..n -> 1..n] : \A i, j \in 1..n : i # j => v[i] # v[j]}

\* (batch size, asset count) of the score tensors explored
TensorShapes ==
    {sh \in (1..MaxCells) \X (2..MaxAssets) : sh[1] * sh[2] <= MaxCells}

RecommendationCalls ==
    UNION {{[op |-> "recommendation_loss", predictions |-> p, targets |-> t, confidence |-> c] :
              p \in [1..sh[1] -> ScoreVectors(sh[2])],
              t \in [1..sh[1] -> ScoreVectors(sh[2])],
              c \in {<<>>, [i \in 1..sh[1] |-> 0], [i \in 1..sh[1] |-> 1]}} :
           sh \in TensorShapes}

\* confidence-loss calls: one or two samples of two assets, confidence [batch, 1]
ConfidenceValues == {0, 1, 2, 4}
ConfidenceSamples ==
    [confidence : ConfidenceValues, prediction : [1..2 -> {0, 2}],
     target : {<<0, 0>>, <<1, 0>>}]
ConfidenceCalls ==
    {[op |-> "confidence_loss",
      confidence |-> [i \in 1..Len(b) |-> b[i].confidence],
      predictions |-> [i \in 1..Len(b) |-> b[i].prediction],
      targets |-> [i \in 1..Len(b) |-> b[i].target]] :
        b \in UNION {[1..n -> ConfidenceSamples] : n \in 1..2}}

NoCall == [op |-> "none"]

\* the loss combiner is not part of the run
LossIdle ==
    /\ loss_weights = DefaultLossWeights
    /\ loss_call = NoCall
    /\ loss_pc = "done"
    /\ loss_out = EmptyDict

\* the module as constructed, and the loss call about to run
LossInit ==
    /\ \E arg \in LossWeightArgs : loss_weights = InitLossWeights(arg)
    /\ \/ loss_call \in TotalLossCalls
       \/ loss_call \in NonFiniteLossCalls
       \/ loss_call \in RegimeCalls
       \/ loss_call \in RecommendationCalls
       \/ loss_call \in ConfidenceCalls
    /\ loss_pc = "ready"
    /\ loss_out = EmptyDict

\* _compute_total_loss
ComputeTotalLoss ==
    /\ loss_pc = "ready"
    /\ loss_call.op = "compute_total_loss"
    /\ loss_out' = ComputeTotalLossResult(loss_call.outputs, loss_call.component, loss_weights)
    /\ loss_pc' = "done"
    /\ UNCHANGED <<loss_weights, loss_call>>

\* _calculate_regime_loss: the labels it infers
CalculateRegimeLoss ==
    /\ loss_pc = "ready"
    /\ loss_call.op = "regime_loss"
    /\ loss_out' = [regime_labels |-> RegimeLabels(loss_call.stats)]
    /\ loss_pc' = "done"
    /\ UNCHANGED <<loss_weights, loss_call>>

\* _calculate_recommendation_loss
CalculateRecommendationLoss ==
    /\ loss_pc = "ready"
    /\ loss_call.op = "recommendation_loss"
    /\ loss_out' = RecommendationLoss(loss_call.predictions, loss_call.targets,
                                      loss_call.confidence)
    /\ loss_pc' = "done"
    /\ UNCHANGED <<loss_weights, loss_call>>

\* _calculate_confidence_loss
CalculateConfidenceLoss ==
    /\ loss_pc = "ready"
    /\ loss_call.op = "confidence_loss"
    /\ loss_out' = ConfidenceLoss(loss_call.confidence, loss_call.predictions,
                                  loss_call.targets)
    /\ loss_pc' = "done"
    /\ UNCHANGED <<loss_weights, loss_call>>

LossNext ==
    \/ ComputeTotalLoss /\ UNCHANGED <<trackerVars, modelVars, recVars, finVars, allVars, cfgVars, headVars, repVars, warmVars, valVars, dataVars>>
    \/ CalculateRegimeLoss /\ UNCHANGED <<trackerVars, modelVars, recVars, finVars, allVars, cfgVars, headVars, repVars, warmVars, valVars, dataVars>>
    \/ CalculateRecommendationLoss /\ UNCHANGED <<trackerVars, modelVars, recVars, finVars, allVars, cfgVars, headVars, repVars, warmVars, valVars, dataVars>>
    \/ CalculateConfidenceLoss /\ UNCHANGED <<trackerVars, modelVars, recVars, finVars, allVars, cfgVars, headVars, repVars, warmVars, valVars, dataVars>>


(***************************************************************************)
(* FinancialMetrics.calculate_recommendation_metrics.                      *)
(* Scores are distinct integers (tie-free rows); a mean is kept as an      *)
(* exact fraction [num, den]. ndcg_20 divides by log2 and is left out of   *)
(* the modelled bundle: it adds one key on the normal path and cannot      *)
(* raise before the mrr loop unless the index lookup below raises.         *)
(***************************************************************************)
\* the default k_values=[5, 10, 20]
DefaultKValues == <<5, 10, 20>>
\* the k of hit_rate_5 and hit_rate_10
HitRateKs == {5, 10}

\* np.argsort(x) of a tie-free vector: the 0-based indices, smallest entry first
NumpyArgsort(x) ==
    [pos \in 1..Len(x) |->
        (CHOOSE j \in 1..Len(x) :
            Cardinality({k \in 1..Len(x) : x[k] < x[j]}) = pos - 1) - 1]

\* a[-k:] for k >= 1, as the set of its entries
LastK(a, k) == {a[pos] : pos \in {q \in 1..Len(a) : q > Len(a) - k}}

\* a[::-1]
Reversed(a) == [pos \in 1..Len(a) |-> a[Len(a) + 1 - pos]]

\* np.argmax(x): the 0-based index of the (first) largest entry
Argmax(x) ==
    (CHOOSE j \in 1..Len(x) :
        /\ \A k \in 1..Len(x) : x[k] <= x[j]
        /\ \A k \in 1..(j - 1) : x[k] < x[j]) - 1

\* rec_ranks = np.argsort(np.argsort(rec_np[i]))[::-1] + 1
RecRanks(x) ==
    LET r == Reversed(NumpyArgsort(NumpyArgsort(x)))
    IN  [pos \in 1..Len(x) |-> r[pos] + 1]

\* rank_of_best = rec_ranks[best_actual_asset]
RankOfBest(recommendation, target) == RecRanks(recommendation)[Argmax(target) + 1]

\* len(set(top_k_indices) & set(actual_top_k_indices))
TopKOverlap(recommendation, target, k) ==
    Cardinality(LastK(NumpyArgsort(recommendation), k) \cap LastK(NumpyArgsort(target), k))

RECURSIVE Factorial(_)
Factorial(n) == IF n <= 1 THEN 1 ELSE n * Factorial(n - 1)

\* the k of k_values that get a precision_at_k entry: "if k >= num_assets: continue"
PrecisionKsOffByOne(k_values, num_assets) ==
    {k_values[i] : i \in {q \in 1..Len(k_values) : ~(k_values[q] > num_assets)}}
PrecisionKs(k_values, num_assets) ==
    {k_values[i] : i \in {q \in 1..Len(k_values) : ~(k_values[q] >= num_assets)}}

\* an index lookup raises IndexError: target_np[i][rec_sorted_indices] when a
\* target row is shorter than the recommendation row, or rec_ranks[best] when
\* the best actual asset's index is past the recommendation row
RaisesIndexError(recommendations, targets) ==
    \E i \in 1..Len(recommendations) :
        \/ Len(targets[i]) < Len(recommendations[i])
        \/ Argmax(targets[i]) >= Len(recommendations[i])

\* the body of the try block
RecommendationMetricsTry(recommendations, targets, k_values) ==
    LET batch_size == Len(recommendations)
        num_assets == Len(recommendations[1])
    IN  [path |-> "try",
         precision_at |->
            [k \in PrecisionKs(k_values, num_assets) |->
                [num |-> SeqSum([i \in 1..batch_size |->
                                   TopKOverlap(recommendations[i], targets[i], k)]),
                 den |-> k * batch_size]],
         hit_rate |->
            [k \in {h \in HitRateKs : h < num_assets} |->
                [num |-> Cardinality({i \in 1..batch_size :
                            TopKOverlap(recommendations[i], targets[i], k) > 0}),
                 den |-> batch_size]],
         mrr |->
            [num |-> SeqSum([i \in 1..batch_size |->
                        Factorial(num_assets) \div RankOfBest(recommendations[i], targets[i])]),
             den |-> Factorial(num_assets) * batch_size]]

\* the except block: 0.0 for every requested k and for the other metrics
RecommendationMetricsExcept(k_values) ==
    [path |-> "except",
     precision_at |-> [k \in {k_values[i] : i \in 1..Len(k_values)} |-> [num |-> 0, den |-> 1]],
     hit_rate |-> [k \in HitRateKs |-> [num |-> 0, den |-> 1]],
     mrr |-> [num |-> 0, den |-> 1]]

\* calculate_recommendation_metrics(recommendations, targets, k_values)
RecommendationMetrics(recommendations, targets, k_values) ==
    IF RaisesIndexError(recommendations, targets)
    THEN RecommendationMetricsExcept(k_values)
    ELSE RecommendationMetricsTry(recommendations, targets, k_values)

\* ---- inputs explored ----
\* k_values arguments: every k from 1 to one past the largest asset count,
\* and the default
KValueChoices == {[i \in 1..(MaxAssets + 1) |-> i], DefaultKValues}

\* well-formed calls (targets shaped like recommendations) and calls whose
\* targets have one asset fewer
RecCalls ==
    UNION {{[recommendations |-> r, targets |-> t, k_values |-> kv] :
              r \in [1..sh[1] -> ScoreVectors(sh[2])],
              t \in [1..sh[1] -> ScoreVectors(sh[2])] \cup [1..sh[1] -> ScoreVectors(sh[2] - 1)],
              kv \in KValueChoices} :
           sh \in TensorShapes}

NoRecCall == [recommendations |-> <<>>, targets |-> <<>>, k_values |-> <<>>]
NoRecMetrics == [path |-> "none"]

\* the metrics suite is not part of the run
RecIdle ==
    /\ rec_call = NoRecCall
    /\ rec_pc = "done"
    /\ rec_metrics = NoRecMetrics

\* a call of calculate_recommendation_metrics about to run
RecInit ==
    /\ rec_call \in RecCalls
    /\ rec_pc = "ready"
    /\ rec_metrics = NoRecMetrics

CalculateRecommendationMetrics ==
    /\ rec_pc = "ready"
    /\ rec_metrics' = RecommendationMetrics(rec_call.recommendations, rec_call.targets,
                                            rec_call.k_values)
    /\ rec_pc' = "done"
    /\ UNCHANGED rec_call

RecNext ==
    CalculateRecommendationMetrics /\ UNCHANGED <<trackerVars, modelVars, lossVars, finVars, allVars, cfgVars, headVars, repVars, warmVars, valVars, dataVars>>

(***************************************************************************)
(* FinancialMetrics.calculate_financial_performance_metrics.               *)
(* A return, risk_free_rate and trading_cost are whole numbers of percent  *)
(* (1 = 0.01); a weight is a whole number. A metric value is a record:     *)
(*   kind "frac"       num / den                                           *)
(*   kind "sqrt"       the square root of num / den                        *)
(*   kind "annualized" (num / den) ** (252 / periods) - 1 - rate / 100     *)
(*   kind "quotient"   numer / denom, both metric values                   *)
(*   kind "inf"        float("inf")                                        *)
(* so that no rounding enters the model. The calls explored pass a 1-D     *)
(* return series with every return above -100% and no benchmark_returns.   *)
(***************************************************************************)
\* a return of 1.0 in the unit of the model
Percent == 100
\* the 252 of the annualisation
TradingDays == 252
\* FinancialMetrics.__init__: risk_free_rate=0.02
DefaultRiskFreeRate == 2
\* np.nan as an entry of a return series
NanReturn == 9999
\* weights=None
NoWeights == <<>>

Frac(n, d) == [kind |-> "frac", num |-> n, den |-> d]
\* the literal 0.0
Zero == Frac(0, 1)
PosInfinity == [kind |-> "inf"]
Quotient(a, b) == [kind |-> "quotient", numer |-> a, denom |-> b]

\* v != 0 for a value of kind "frac" or "sqrt"
NonZero(v) == v.num # 0

\* a / b < c / d for b, d > 0, by comparing the integer parts and then the
\* remainders (no product of two large numbers is formed)
RECURSIVE FracLess(_, _, _, _)
FracLess(a, b, c, d) ==
    LET q1 == a \div b
        q2 == c \div d
        r1 == a % b
        r2 == c % d
    IN  IF q1 # q2 THEN q1 < q2
        ELSE IF r2 = 0 THEN FALSE
        ELSE IF r1 = 0 THEN TRUE
        ELSE FracLess(d, r2, b, r1)

RECURSIVE Pow(_, _)
Pow(b, e) == IF e = 0 THEN 1 ELSE b * Pow(b, e - 1)

\* abs(x)
Abs(x) == IF x >= 0 THEN x ELSE 0 - x

\* portfolio_returns[~np.isnan(portfolio_returns)]
DropNan(a) == SelectSeq(a, LAMBDA x : x # NanReturn)

\* turnover = np.sum(np.abs(np.diff(weights, axis=0)), axis=1)
Turnover(weights) ==
    [t \in 1..(Len(weights) - 1) |->
        SeqSum([a \in 1..Len(weights[t]) |-> Abs(weights[t + 1][a] - weights[t][a])])]

\* cost_drag = turnover * self.trading_cost
CostDrag(weights, trading_cost) ==
    LET turnover == Turnover(weights)
    IN  [t \in 1..Len(turnover) |-> turnover[t] * trading_cost]

\* "if trading_costs and weights is not None and len(weights) > 1"
CostsApply(weights, trading_costs) ==
    trading_costs /\ weights # NoWeights /\ Len(weights) > 1

\* portfolio_returns[1:] -= cost_drag is accepted by numpy: cost_drag has the
\* length of the slice, or length 1 (which is broadcast over the slice)
SubtractRaises(portfolio_returns, cost_drag) ==
    ~(Len(cost_drag) = Len(portfolio_returns) - 1 \/ Len(cost_drag) = 1)

\* portfolio_returns after "portfolio_returns[1:] -= cost_drag"
SubtractFromTail(portfolio_returns, cost_drag) ==
    [t \in 1..Len(portfolio_returns) |->
        IF t = 1 THEN portfolio_returns[1]
        ELSE portfolio_returns[t]
             - (IF Len(cost_drag) = 1 THEN cost_drag[1] ELSE cost_drag[t - 1])]

\* np.cumprod(1 + portfolio_returns), every entry over the common denominator
\* Percent ** len(portfolio_returns)
RECURSIVE CumProd(_, _)
CumProd(r, t) ==
    IF t = 0 THEN Pow(Percent, Len(r))
    ELSE (CumProd(r, t - 1) \div Percent) * (Percent + r[t])
CumulativeReturns(r) == [t \in 1..Len(r) |-> CumProd(r, t)]

\* np.maximum.accumulate(cumulative_returns)
RunningMaxIsCurrent(c) == c
RunningMax(c) ==
    [t \in 1..Len(c) |-> CHOOSE m \in {c[u] : u \in 1..t} : \A u \in 1..t : c[u] <= m]

\* drawdowns = (cumulative_returns - running_max) / running_max
Drawdowns(c, running_max) ==
    [t \in 1..Len(c) |-> Frac(c[t] - running_max[t], running_max[t])]

\* np.min over a sequence of fractions with positive denominators
MinFrac(fs) ==
    LET t == CHOOSE u \in 1..Len(fs) :
                \A w \in 1..Len(fs) : ~FracLess(fs[w].num, fs[w].den, fs[u].num, fs[u].den)
    IN  fs[t]

\* total_return = np.prod(1 + portfolio_returns) - 1
TotalReturn(r) ==
    Frac(CumProd(r, Len(r)) - Pow(Percent, Len(r)), Pow(Percent, Len(r)))

\* (1 + total_return) ** (252 / len(portfolio_returns)) - 1 - rate
Annualized(r, rate) ==
    [kind |-> "annualized", num |-> CumProd(r, Len(r)), den |-> Pow(Percent, Len(r)),
     periods |-> Len(r), rate |-> rate]

\* excess_return > 0, for an excess return of kind "annualized" with rate >= 0.
\* With x = num / den - 1 and k = 252 / periods >= 1: x <= 0 gives
\* (1 + x) ** k <= 1, and k * x > rate / 100 gives (1 + x) ** k >= 1 + k * x
\* > 1 + rate / 100 (Bernoulli). The band 0 < k * x <= rate / 100 between the
\* two is not decided by these bounds; no series explored falls into it
\* (AnnualizedSignDecided).
IsPositive(v) ==
    v.num - v.den > (v.rate * v.periods * v.den) \div (TradingDays * Percent)

\* np.std(x) * np.sqrt(252): the square root of 252 times the population
\* variance (n * sum(x**2) - sum(x)**2) / n**2
AnnualizedStd(x) ==
    LET n == Len(x)
        total == SeqSum(x)
        squares == SeqSum([t \in 1..n |-> x[t] * x[t]])
    IN  [kind |-> "sqrt", num |-> TradingDays * (n * squares - total * total),
         den |-> n * n * Percent * Percent]

\* sharpe_ratio = excess_return / volatility if volatility != 0 else 0.0
SharpeRatioUnguarded(excess_return, volatility) == Quotient(excess_return, volatility)
SharpeRatio(excess_return, volatility) ==
    IF NonZero(volatility) THEN Quotient(excess_return, volatility) ELSE Zero

\* calmar_ratio = annualized_return / abs(max_drawdown) if max_drawdown != 0 else 0.0
CalmarRatio(annualized_return, max_drawdown) ==
    IF NonZero(max_drawdown)
    THEN Quotient(annualized_return, Frac(Abs(max_drawdown.num), max_drawdown.den))
    ELSE Zero

\* np.sort(x)
RECURSIVE Sorted(_)
Sorted(x) ==
    IF x = <<>> THEN <<>>
    ELSE LET t == CHOOSE u \in 1..Len(x) : \A w \in 1..Len(x) : x[u] <= x[w]
         IN  <<x[t]>> \o Sorted(SubSeq(x, 1, t - 1) \o SubSeq(x, t + 1, Len(x)))

\* np.percentile(x, q), linear interpolation between the two order statistics
\* around the position (len(x) - 1) * q / 100
Percentile(x, q) ==
    LET sorted == Sorted(x)
        lo == ((Len(x) - 1) * q) \div 100
        part == ((Len(x) - 1) * q) % 100
    IN  IF part = 0 THEN Frac(100 * sorted[lo + 1], 100 * Percent)
        ELSE Frac(100 * sorted[lo + 1] + part * (sorted[lo + 2] - sorted[lo + 1]),
                  100 * Percent)

\* cvar_95 = np.mean(portfolio_returns[portfolio_returns <= var_95])
ConditionalVar(x, var_95) ==
    LET tail == SelectSeq(x, LAMBDA v : v * 100 <= var_95.num)
    IN  Frac(SeqSum(tail), Len(tail) * Percent)

\* downside_returns = portfolio_returns[portfolio_returns < 0]
DownsideReturnsInclusive(x) == SelectSeq(x, LAMBDA v : v <= 0)
DownsideReturns(x) == SelectSeq(x, LAMBDA v : v < 0)

\* the sortino_ratio branch
SortinoRatio(x, excess_return) ==
    LET downside_returns == DownsideReturns(x)
        downside_deviation == AnnualizedStd(downside_returns)
    IN  IF Len(downside_returns) > 0
        THEN (IF NonZero(downside_deviation)
              THEN Quotient(excess_return, downside_deviation) ELSE Zero)
        ELSE (IF IsPositive(excess_return) THEN PosInfinity ELSE Zero)

\* the bundle returned when no valid return is left
EmptyDefaults ==
    [k \in {"total_return", "annualized_return", "volatility", "sharpe_ratio",
            "max_drawdown", "calmar_ratio", "var_95", "var_99"} |-> Zero]

\* the bundle returned by the except block
ErrorDefaults ==
    [k \in {"total_return", "annualized_return", "volatility", "sharpe_ratio",
            "max_drawdown", "calmar_ratio", "var_95", "var_99", "cvar_95",
            "sortino_ratio"} |-> Zero]

\* the metrics computed from the (cost-adjusted) portfolio returns r, r # <<>>
PerformanceMetrics(r, risk_free_rate) ==
    LET annualized_return == Annualized(r, 0)
        volatility == AnnualizedStd(r)
        excess_return == Annualized(r, risk_free_rate)
        cumulative_returns == CumulativeReturns(r)
        max_drawdown == MinFrac(Drawdowns(cumulative_returns, RunningMax(cumulative_returns)))
        var_95 == Percentile(r, 5)
    IN  [total_return |-> TotalReturn(r),
         annualized_return |-> annualized_return,
         volatility |-> volatility,
         sharpe_ratio |-> SharpeRatio(excess_return, volatility),
         max_drawdown |-> max_drawdown,
         calmar_ratio |-> CalmarRatio(annualized_return, max_drawdown),
         var_95 |-> var_95,
         var_99 |-> Percentile(r, 1),
         cvar_95 |-> ConditionalVar(r, var_95),
         sortino_ratio |-> SortinoRatio(r, excess_return)]

\* the body of the try block: "returned" with a bundle, or "raised" at the
\* in-place subtraction; portfolio_returns is the local array as the body
\* leaves it
PerformanceTry(self, returns, weights, trading_costs) ==
    LET portfolio_returns == DropNan(returns)
        cost_drag == CostDrag(weights, self.trading_cost)
    IN  IF Len(portfolio_returns) = 0
        THEN [path |-> "empty", portfolio_returns |-> portfolio_returns,
              metrics |-> EmptyDefaults]
        ELSE IF ~CostsApply(weights, trading_costs)
        THEN [path |-> "normal", portfolio_returns |-> portfolio_returns,
              metrics |-> PerformanceMetrics(portfolio_returns, self.risk_free_rate)]
        ELSE IF SubtractRaises(portfolio_returns, cost_drag)
        THEN [path |-> "raised", portfolio_returns |-> portfolio_returns,
              metrics |-> EmptyDict]
        ELSE LET net == SubtractFromTail(portfolio_returns, cost_drag)
             IN  [path |-> "normal", portfolio_returns |-> net,
                  metrics |-> PerformanceMetrics(net, self.risk_free_rate)]

\* "except Exception as e: ... return {...}"
PropagateException(outcome) == outcome
CatchException(outcome) ==
    IF outcome.path = "raised"
    THEN [outcome EXCEPT !.path = "error", !.metrics = ErrorDefaults]
    ELSE outcome

\* calculate_financial_performance_metrics(returns, weights, None, trading_costs)
FinancialPerformanceMetrics(self, returns, weights, trading_costs) ==
    CatchException(PerformanceTry(self, returns, weights, trading_costs))

\* ---- inputs explored ----
ReturnValues == {-2, 0, 1, 3, NanReturn}
ReturnSeries == UNION {[1..n -> ReturnValues] : n \in 0..MaxPeriods}
\* weights over two assets, fully invested in one of them each period
WeightRows == {<<1, 0>>, <<0, 1>>}
WeightArgs == {NoWeights} \cup UNION {[1..n -> WeightRows] : n \in 1..MaxPeriods}
\* FinancialMetrics(risk_free_rate=0.02, trading_cost=c), c in {0.01, 0.02}
MetricsInstances == [risk_free_rate : {DefaultRiskFreeRate}, trading_cost : {1, 2}]

FinCalls ==
    [self : MetricsInstances, returns : ReturnSeries, weights : WeightArgs,
     trading_costs : BOOLEAN]

NoFinCall == [self |-> [risk_free_rate |-> 0, trading_cost |-> 0], returns |-> <<>>,
              weights |-> NoWeights, trading_costs |-> FALSE]
NoFinOut == [path |-> "none", portfolio_returns |-> <<>>, metrics |-> EmptyDict]

\* the financial-performance metrics are not part of the run
FinIdle ==
    /\ fin_call = NoFinCall
    /\ fin_pc = "done"
    /\ fin_out = NoFinOut

\* a call of calculate_financial_performance_metrics about to run
FinInit ==
    /\ fin_call \in FinCalls
    /\ fin_pc = "ready"
    /\ fin_out = NoFinOut

CalculateFinancialPerformanceMetrics ==
    /\ fin_pc = "ready"
    /\ fin_out' = FinancialPerformanceMetrics(fin_call.self, fin_call.returns,
                                              fin_call.weights, fin_call.trading_costs)
    /\ fin_pc' = "done"
    /\ UNCHANGED fin_call

FinNext ==
    CalculateFinancialPerformanceMetrics
    /\ UNCHANGED <<trackerVars, modelVars, lossVars, recVars, allVars, cfgVars, headVars, repVars, warmVars, valVars, dataVars>>

\* every annualised value computed lies outside the band IsPositive leaves
\* undecided
AnnualizedSignDecided ==
    fin_out.path = "normal"
    => LET r == fin_out.portfolio_returns
           v == Annualized(r, fin_call.self.risk_free_rate)
       IN  \/ v.num <= v.den
           \/ IsPositive(v)

(***************************************************************************)
(* FinancialMetrics.calculate_all_metrics.                                 *)
(* The returned bundle is modelled by its keys: each key is mapped to the  *)
(* metric group whose dict last wrote it (all_metrics.update). The keys of *)
(* the financial group are those of the bundle                             *)
(* calculate_financial_performance_metrics returns for the call's returns  *)
(* and weights; the keys of the other groups follow the key-writing        *)
(* statements of their methods.                                            *)
(***************************************************************************)
OutputKeys == {"recommendations", "confidence", "risk_scores", "regime_probs"}
RegimeNames == <<"bull", "bear", "sideways">>

\* calculate_prediction_metrics: the keys written (the try and the except
\* blocks write the same ones)
PredictionKeys(confidence_given) ==
    {"mse", "mae", "rmse", "r2", "accuracy", "precision", "recall", "f1"}
    \cup (IF confidence_given THEN {"confidence_accuracy_corr", "avg_confidence"} ELSE {})

\* f"precision_at_{k}" and f"hit_rate_{k}"
PrecisionKey(k) == "precision_at_" \o ToString(k)
HitRateKey(k) == "hit_rate_" \o ToString(k)

\* calculate_recommendation_metrics with the default k_values: the keys
\* written by the try block for num_assets assets, and every key of the
\* except block when an index lookup on the targets raises
RecommendationKeys(num_assets, raises) ==
    IF raises
    THEN {PrecisionKey(DefaultKValues[i]) : i \in 1..Len(DefaultKValues)}
         \cup {"ndcg_20", "hit_rate_5", "hit_rate_10", "mrr"}
    ELSE {PrecisionKey(k) : k \in PrecisionKs(DefaultKValues, num_assets)}
         \cup {"ndcg_20"}
         \cup {HitRateKey(k) : k \in {h \in HitRateKs : h < num_assets}}
         \cup {"mrr"}

\* calculate_risk_metrics: the keys written; returns is the targets tensor
\* when it has more than one dimension
RiskKeys(returns_given, batch_size) ==
    {"avg_risk_score", "risk_score_std", "risk_score_entropy", "risk_concentration"}
    \cup (IF returns_given /\ batch_size > 1 THEN {"risk_volatility_correlation"} ELSE {})

\* calculate_regime_metrics: the keys written when the classes in predicted
\* are the argmax of some sample and, with true_regimes given, the classes in
\* actual occur among the true labels
RegimeKeys(predicted, true_given, actual) ==
    {"avg_regime_confidence", "regime_entropy"}
    \cup {"regime_" \o RegimeNames[c + 1] \o "_ratio" : c \in predicted}
    \cup (IF true_given
          THEN {"regime_accuracy"}
               \cup {"regime_" \o RegimeNames[c + 1] \o "_precision" : c \in predicted}
               \cup {"regime_" \o RegimeNames[c + 1] \o "_recall" : c \in actual}
          ELSE {})

\* d.update(group): the keys of the group, each marked with the group's name
DictUpdate(d, keys, group) ==
    [k \in DOMAIN d \cup keys |-> IF k \in keys THEN group ELSE d[k]]

\* "if returns is not None"
IncludeFinancialAlways(returns) == TRUE
IncludeFinancial(returns) == returns.given

\* calculate_all_metrics(model_outputs, targets, returns, weights, true_regimes)
AllMetrics(self, call) ==
    LET outputs == call.outputs
        with_prediction ==
            IF "recommendations" \in outputs
            THEN DictUpdate(EmptyDict, PredictionKeys("confidence" \in outputs), "prediction")
            ELSE EmptyDict
        with_financial ==
            IF IncludeFinancial(call.returns)
            THEN DictUpdate(with_prediction,
                    DOMAIN FinancialPerformanceMetrics(self, call.returns.series,
                                                       call.weights, TRUE).metrics,
                    "financial")
            ELSE with_prediction
        with_recommendation ==
            IF "recommendations" \in outputs
            THEN DictUpdate(with_financial,
                    RecommendationKeys(call.num_assets, call.targets_shape # "matrix"),
                    "recommendation")
            ELSE with_financial
        with_risk ==
            IF "risk_scores" \in outputs
            THEN DictUpdate(with_recommendation,
                    RiskKeys(call.targets_shape # "vector", call.batch_size), "risk")
            ELSE with_recommendation
    IN  IF "regime_probs" \in outputs
        THEN DictUpdate(with_risk,
                RegimeKeys(call.predicted, call.true_regimes.given, call.true_regimes.classes),
                "regime")
        ELSE with_risk

\* ---- inputs explored ----
\* returns=None, or one of a few series (empty, all-NaN, one period, three
\* periods, one NaN among three)
ReturnArgs ==
    {[given |-> FALSE, series |-> <<>>]}
    \cup {[given |-> TRUE, series |-> x] :
            x \in {<<>>, <<NanReturn>>, <<1>>, <<1, -2, 3>>, <<1, NanReturn, 3>>}}
\* true_regimes=None, or labels in which the given classes occur
TrueRegimeArgs ==
    {[given |-> FALSE, classes |-> {}]}
    \cup {[given |-> TRUE, classes |-> c] : c \in {{0}, {1, 2}}}

AllCalls ==
    [outputs : SUBSET OutputKeys,
     returns : ReturnArgs,
     weights : {NoWeights, <<<<1, 0>>, <<0, 1>>, <<0, 1>>>>},
     num_assets : {3, 8, 25},
     batch_size : {1, 2},
     targets_shape : {"matrix", "short_matrix", "vector"},
     predicted : {{0}, {2}, {0, 1}, {0, 1, 2}},
     true_regimes : TrueRegimeArgs]

NoAllCall ==
    [outputs |-> {}, returns |-> [given |-> FALSE, series |-> <<>>], weights |-> NoWeights,
     num_assets |-> 0, batch_size |-> 0, targets_shape |-> "matrix", predicted |-> {},
     true_regimes |-> [given |-> FALSE, classes |-> {}]]

\* calculate_all_metrics is not part of the run
AllIdle ==
    /\ all_call = NoAllCall
    /\ all_pc = "done"
    /\ all_out = EmptyDict

\* a call of calculate_all_metrics about to run, on a FinancialMetrics()
AllInit ==
    /\ all_call \in AllCalls
    /\ all_pc = "ready"
    /\ all_out = EmptyDict

CalculateAllMetrics ==
    /\ all_pc = "ready"
    /\ all_out' = AllMetrics([risk_free_rate |-> DefaultRiskFreeRate, trading_cost |-> 1],
                             all_call)
    /\ all_pc' = "done"
    /\ UNCHANGED all_call

AllNext ==
    CalculateAllMetrics
    /\ UNCHANGED <<trackerVars, modelVars, lossVars, recVars, finVars, cfgVars, headVars, repVars, warmVars, valVars, dataVars>>

(***************************************************************************)
(* Construction from configuration names: FinancialLightningModule         *)
(* (optimizer, scheduler) and FinancialDataPreprocessor (scaler types,     *)
(* imputation strategy).                                                   *)
(***************************************************************************)
\* the names the code knows
KnownOptimizers == {"adamw", "adam"}
KnownSchedulers == {"reduce_on_plateau", "cosine"}
\* the keys of scaler_map
KnownScalers == {"robust", "standard", "minmax"}
\* the strategies named by FinancialDataPreprocessor.__init__
KnownImputers == {"knn", "median", "mean"}

\* str.lower() on the letters that occur in the names explored
UpperToLower == [A |-> "a", W |-> "w", C |-> "c", S |-> "s", G |-> "g", D |-> "d"]
RECURSIVE Lower(_)
Lower(str) ==
    IF Len(str) = 0 THEN str
    ELSE LET c == SubSeq(str, 1, 1)
         IN  (IF c \in DOMAIN UpperToLower THEN UpperToLower[c] ELSE c)
             \o Lower(SubSeq(str, 2, Len(str)))

NoError == [type |-> "none", raised_in |-> "none", names |-> ""]
NoCfgCall == [class |-> "none", names |-> EmptyDict]
NoCfgOut == [constructed |-> FALSE, error |-> NoError, optimizer |-> "none",
             lr_scheduler |-> "none"]

\* FinancialLightningModule.__init__: the two names are stored as given
LightningInit(names) == [NoCfgOut EXCEPT !.constructed = TRUE]

\* FinancialLightningModule.configure_optimizers
ConfigureOptimizersResult(names, out) ==
    LET optimizer_name == Lower(names["optimizer"])
        scheduler_name == Lower(names["scheduler"])
    IN  IF optimizer_name \notin KnownOptimizers
        THEN [out EXCEPT !.error = [type |-> "ValueError",
                                    raised_in |-> "configure_optimizers",
                                    names |-> names["optimizer"]]]
        ELSE [out EXCEPT !.optimizer = optimizer_name,
                         !.lr_scheduler = IF scheduler_name \in KnownSchedulers
                                          THEN scheduler_name ELSE "none"]

\* FinancialDataPreprocessor.__init__: scaler_map[...] for the three scaler
\* types in order (a missing key raises KeyError), then KNNImputer for "knn"
\* and SimpleImputer(strategy=...) for every other strategy (SimpleImputer
\* stores the strategy and validates it only when fitted)
PreprocessorInit(names) ==
    LET order == <<"price_scaler_type", "volume_scaler_type", "ratio_scaler_type">>
        bad == {i \in 1..Len(order) : names[order[i]] \notin KnownScalers}
    IN  IF bad # {}
        THEN [NoCfgOut EXCEPT !.error =
                 [type |-> "KeyError", raised_in |-> "__init__",
                  names |-> names[order[CHOOSE i \in bad : \A j \in bad : i <= j]]]]
        ELSE [NoCfgOut EXCEPT !.constructed = TRUE]

\* ---- inputs explored ----
OptimizerNames == KnownOptimizers \cup {"AdamW", "sgd"}
SchedulerNames == KnownSchedulers \cup {"Cosine", "step"}
ScalerNames == KnownScalers \cup {"maxabs"}
ImputerNames == KnownImputers \cup {"mode"}

CfgCalls ==
    {[class |-> "FinancialLightningModule", names |-> n] :
        n \in [optimizer : OptimizerNames, scheduler : SchedulerNames]}
    \cup {[class |-> "FinancialDataPreprocessor", names |-> n] :
            n \in [price_scaler_type : ScalerNames, volume_scaler_type : ScalerNames,
                   ratio_scaler_type : ScalerNames, imputation_strategy : ImputerNames]}

\* no object is constructed from configuration names in the run
CfgIdle ==
    /\ cfg_call = NoCfgCall
    /\ cfg_pc = "done"
    /\ cfg_out = NoCfgOut

\* a constructor call about to run
CfgInit ==
    /\ cfg_call \in CfgCalls
    /\ cfg_pc = "ready"
    /\ cfg_out = NoCfgOut

\* FinancialLightningModule(optimizer=..., scheduler=...)
ConstructLightningModule ==
    /\ cfg_pc = "ready"
    /\ cfg_call.class = "FinancialLightningModule"
    /\ cfg_out' = LightningInit(cfg_call.names)
    /\ cfg_pc' = "constructed"
    /\ UNCHANGED cfg_call

\* the trainer's call of configure_optimizers() on the constructed module
ConfigureOptimizers ==
    /\ cfg_pc = "constructed"
    /\ cfg_call.class = "FinancialLightningModule"
    /\ cfg_out' = ConfigureOptimizersResult(cfg_call.names, cfg_out)
    /\ cfg_pc' = "done"
    /\ UNCHANGED cfg_call

\* FinancialDataPreprocessor(price_scaler_type=..., ...)
ConstructPreprocessor ==
    /\ cfg_pc = "ready"
    /\ cfg_call.class = "FinancialDataPreprocessor"
    /\ cfg_out' = PreprocessorInit(cfg_call.names)
    /\ cfg_pc' = "done"
    /\ UNCHANGED cfg_call

CfgNext ==
    \/ ConstructLightningModule
       /\ UNCHANGED <<trackerVars, modelVars, lossVars, recVars, finVars, allVars, headVars, repVars, warmVars, valVars, dataVars>>
    \/ ConfigureOptimizers
       /\ UNCHANGED <<trackerVars, modelVars, lossVars, recVars, finVars, allVars, headVars, repVars, warmVars, valVars, dataVars>>
    \/ ConstructPreprocessor
       /\ UNCHANGED <<trackerVars, modelVars, lossVars, recVars, finVars, allVars, headVars, repVars, warmVars, valVars, dataVars>>

(***************************************************************************)
(* RiskAwareRecommendationHead.forward: softmax over the class axis of the *)
(* recommendation, risk and regime logits, sigmoid of the confidence       *)
(* logit.  exp is kept exact: with u = exp(-1), 0 < u < 1, exp(-k) for an  *)
(* integer k >= 0 is the monomial u^k, and a value is a quotient num / den *)
(* of polynomials in u, a polynomial being the sequence of its             *)
(* coefficients (entry k + 1 the coefficient of u^k).                      *)
(***************************************************************************)
Coef(p, k) == IF k \in 1..Len(p) THEN p[k] ELSE 0

\* u^k
Monomial(k) == [i \in 1..(k + 1) |-> IF i = k + 1 THEN 1 ELSE 0]

PolyAdd(p, q) ==
    [k \in 1..(IF Len(p) >= Len(q) THEN Len(p) ELSE Len(q)) |-> Coef(p, k) + Coef(q, k)]

RECURSIVE PolySum(_)
PolySum(ps) == IF ps = <<>> THEN <<>> ELSE PolyAdd(Head(ps), PolySum(Tail(ps)))

\* the largest entry of a non-empty sequence of logits
MaxOf(row) == CHOOSE m \in {row[i] : i \in 1..Len(row)} : \A i \in 1..Len(row) : row[i] <= m

\* softmax of one vector: exp(x_i - max) / sum over j of exp(x_j - max)
SoftmaxVector(row) ==
    LET m == MaxOf(row)
        den == PolySum([j \in 1..Len(row) |-> Monomial(m - row[j])])
    IN  [i \in 1..Len(row) |-> [num |-> Monomial(m - row[i]), den |-> den]]

\* F.softmax(logits, dim=0) of a [batch, classes] tensor: over the batch axis
SoftmaxOverBatch(logits) ==
    LET column(c) == [b \in 1..Len(logits) |-> logits[b][c]]
    IN  [b \in 1..Len(logits) |->
            [c \in 1..Len(logits[b]) |-> SoftmaxVector(column(c))[b]]]

\* F.softmax(logits, dim=-1) of a [batch, classes] tensor: over the class axis
Softmax(logits) ==
    [b \in 1..Len(logits) |-> SoftmaxVector(logits[b])]

\* torch.sigmoid(z) = 1 / (1 + exp(-z)), for z < 0 written exp(z) / (exp(z) + 1)
Sigmoid(z) ==
    IF z >= 0
    THEN [num |-> Monomial(0), den |-> PolyAdd(Monomial(0), Monomial(z))]
    ELSE [num |-> Monomial(0 - z), den |-> PolyAdd(Monomial(0), Monomial(0 - z))]

\* forward(x), given the outputs of the four nn.Sequential stacks for x
HeadForward(raw) ==
    [recommendations |-> Softmax(raw.recommendation_head),
     confidence |-> [b \in 1..Len(raw.confidence_head) |->
                        <<Sigmoid(raw.confidence_head[b][1])>>],
     risk_scores |-> Softmax(raw.risk_head),
     regime_probs |-> Softmax(raw.regime_head),
     raw_logits |-> raw.recommendation_head]

\* ---- inputs explored ----
\* the logits of one sample: two assets, two risk factors, three regimes
LogitValues == {-1, 1}
SampleLogits ==
    [recommendation_head : [1..2 -> LogitValues], confidence_head : [1..1 -> LogitValues],
     risk_head : {<<-1, 1>>, <<1, 1>>},
     regime_head : {<<-1, -1, 1>>, <<1, -1, 1>>, <<1, 1, 1>>, <<-1, 1, -1>>}]
HeadCalls ==
    {[recommendation_head |-> [b \in 1..Len(x) |-> x[b].recommendation_head],
      confidence_head |-> [b \in 1..Len(x) |-> x[b].confidence_head],
      risk_head |-> [b \in 1..Len(x) |-> x[b].risk_head],
      regime_head |-> [b \in 1..Len(x) |-> x[b].regime_head]] :
        x \in UNION {[1..n -> SampleLogits] : n \in 1..2}}

NoHeadCall ==
    [recommendation_head |-> <<>>, confidence_head |-> <<>>, risk_head |-> <<>>,
     regime_head |-> <<>>]
NoHeadOut ==
    [recommendations |-> <<>>, confidence |-> <<>>, risk_scores |-> <<>>,
     regime_probs |-> <<>>, raw_logits |-> <<>>]

\* the prediction heads are not part of the run
HeadIdle ==
    /\ head_call = NoHeadCall
    /\ head_pc = "done"
    /\ head_out = NoHeadOut

\* a batch of final-timestep representations about to go through the heads
HeadInit ==
    /\ head_call \in HeadCalls
    /\ head_pc = "ready"
    /\ head_out = NoHeadOut

\* RiskAwareRecommendationHead.forward
HeadForwardCall ==
    /\ head_pc = "ready"
    /\ head_out' = HeadForward(head_call)
    /\ head_pc' = "done"
    /\ UNCHANGED head_call

HeadNext ==
    HeadForwardCall
    /\ UNCHANGED <<trackerVars, modelVars, lossVars, recVars, finVars, allVars, cfgVars, repVars, warmVars, valVars, dataVars>>

(***************************************************************************)
(* calculate_all_metrics called twice in succession with the same input    *)
(* objects.  The return and weight arrays belong to the caller; the        *)
(* financial group works on "portfolio_returns", which names the caller's  *)
(* array after "portfolio_returns = returns" and a new array after the     *)
(* boolean-mask indexing that removes the NaN entries.                     *)
(***************************************************************************)
\* whether portfolio_returns[~np.isnan(portfolio_returns)] shares memory with
\* the array indexed: boolean-mask indexing always builds a new array
FilteredIsViewWhenAllKept(returns) == DropNan(returns) = returns
FilteredSharesMemory(returns) == FALSE

\* the contents of the caller's returns array after
\* calculate_financial_performance_metrics(returns, weights): the in-place
\* subtraction of the trading costs reaches it only through shared memory
CallerReturnsAfter(self, returns, weights) ==
    LET outcome == PerformanceTry(self, returns, weights, TRUE)
    IN  IF FilteredSharesMemory(returns) /\ outcome.path = "normal"
        THEN outcome.portfolio_returns
        ELSE returns

\* the arguments of a call, with the arrays as they are now
WithArrays(call, arrays) ==
    [call EXCEPT !.returns.series = arrays.returns, !.weights = arrays.weights]

\* what one call of calculate_all_metrics returns: the keys of the bundle by
\* group, and the values of the financial group
BundleReturned(self, call) ==
    [keys |-> AllMetrics(self, call),
     financial |-> IF IncludeFinancial(call.returns)
                   THEN FinancialPerformanceMetrics(self, call.returns.series,
                                                    call.weights, TRUE).metrics
                   ELSE EmptyDict]

\* ---- inputs explored ----
RepeatCalls ==
    {c \in [outputs : {{}, {"recommendations"}, OutputKeys},
            returns : {[given |-> FALSE, series |-> <<>>]}
                      \cup {[given |-> TRUE, series |-> x] :
                              x \in {y \in ReturnSeries :
                                        \A t \in 1..Len(y) : y[t] \in {1, 3, NanReturn}}},
            weights : WeightArgs,
            num_assets : {3},
            batch_size : {2},
            targets_shape : {"matrix"},
            predicted : {{0, 1}},
            true_regimes : {[given |-> FALSE, classes |-> {}]}] :
        c.returns.given \/ c.weights = NoWeights}

NoArrays == [returns |-> <<>>, weights |-> NoWeights]

\* no repeated call is part of the run
RepIdle ==
    /\ rep_call = NoAllCall
    /\ rep_arrays = NoArrays
    /\ rep_pc = "done"
    /\ rep_out = <<>>

\* the caller has built the arguments; the first call is about to run
RepInit ==
    /\ rep_call \in RepeatCalls
    /\ rep_arrays = [returns |-> rep_call.returns.series, weights |-> rep_call.weights]
    /\ rep_pc = "first"
    /\ rep_out = <<>>

\* one call of calculate_all_metrics on a FinancialMetrics(), with the caller's
\* objects
CallAllMetrics(self) ==
    /\ rep_pc \in {"first", "second"}
    /\ rep_out' = Append(rep_out, BundleReturned(self, WithArrays(rep_call, rep_arrays)))
    /\ rep_arrays' =
          IF IncludeFinancial(rep_call.returns)
          THEN [rep_arrays EXCEPT
                   !.returns = CallerReturnsAfter(self, rep_arrays.returns, rep_arrays.weights)]
          ELSE rep_arrays
    /\ rep_pc' = IF rep_pc = "first" THEN "second" ELSE "done"
    /\ UNCHANGED rep_call

RepNext ==
    CallAllMetrics([risk_free_rate |-> DefaultRiskFreeRate, trading_cost |-> 1])
    /\ UNCHANGED <<trackerVars, modelVars, lossVars, recVars, finVars, allVars, cfgVars, headVars, warmVars, valVars, dataVars>>

(***************************************************************************)
(* FinancialLightningModule: the optimizer's parameter groups and the      *)
(* warmup of their learning rates in on_train_epoch_end.  A learning rate  *)
(* is a fraction num / den, in units of 1e-4.                              *)
(***************************************************************************)
\* the factor of the head group's learning rate
HeadLrFactor == 2

\* configure_optimizers: the two parameter groups of AdamW / Adam, backbone
\* first, then the recommendation head
ParamGroupLrs(cfg) ==
    <<[num |-> cfg.learning_rate, den |-> 1],
      [num |-> cfg.learning_rate * HeadLrFactor, den |-> 1]>>

\* param_group["lr"] = param_group["lr"] * warmup_factor, with
\* warmup_factor = (current_epoch + 1) / warmup_epochs
WarmupScaled(cfg, lr, epoch) ==
    [num |-> lr.num * (epoch + 1), den |-> lr.den * cfg.warmup_epochs]

\* ---- inputs explored ----
WarmConfigs ==
    [learning_rate : {1, 3, 10}, warmup_epochs : 0..MaxWarmup, optimizer : KnownOptimizers]

NoWarmConfig == [learning_rate |-> 0, warmup_epochs |-> 0, optimizer |-> "none"]

\* no training loop is part of the run
WarmIdle ==
    /\ warm_cfg = NoWarmConfig
    /\ warm_pc = "idle"
    /\ warm_epoch = 0
    /\ warm_lr = <<>>

\* the module as constructed; the trainer has not asked for the optimizer yet
WarmInit ==
    /\ warm_cfg \in WarmConfigs
    /\ warm_pc = "constructed"
    /\ warm_epoch = 0
    /\ warm_lr = <<>>

\* the trainer's call of configure_optimizers() before the first epoch
ConfigureParamGroups ==
    /\ warm_pc = "constructed"
    /\ warm_lr' = ParamGroupLrs(warm_cfg)
    /\ warm_pc' = "training"
    /\ UNCHANGED <<warm_cfg, warm_epoch>>

\* on_train_epoch_end at the end of epoch current_epoch, after which the
\* trainer advances current_epoch
OnTrainEpochEnd ==
    /\ warm_pc = "training"
    /\ warm_epoch < MaxEpochs
    /\ warm_lr' = IF warm_epoch < warm_cfg.warmup_epochs
                  THEN [g \in 1..Len(warm_lr) |->
                           WarmupScaled(warm_cfg, warm_lr[g], warm_epoch)]
                  ELSE warm_lr
    /\ warm_epoch' = warm_epoch + 1
    /\ UNCHANGED <<warm_cfg, warm_pc>>

WarmNext ==
    \/ ConfigureParamGroups
       /\ UNCHANGED <<trackerVars, modelVars, lossVars, recVars, finVars, allVars, cfgVars, headVars, repVars, valVars, dataVars>>
    \/ OnTrainEpochEnd
       /\ UNCHANGED <<trackerVars, modelVars, lossVars, recVars, finVars, allVars, cfgVars, headVars, repVars, valVars, dataVars>>

(***************************************************************************)
(* FinancialLightningModule: validation_step, validation_epoch_end and     *)
(* test_epoch_end.  The tracker variables are self.val_metrics_tracker.    *)
(* Every metric of one batch carries the same value, the batch's level, so *)
(* the average of a key over the batches is the average of the levels;     *)
(* levels are even and an epoch has one or two batches, which keeps the    *)
(* averages whole.                                                         *)
(***************************************************************************)
\* float("inf"): above every metric value of the model
BestPosInf == 1000

\* self.best_metric_value = float("-inf") if mode == "max" else float("inf")
InitialBest(mode) == IF mode = "max" THEN NegInf ELSE BestPosInf

\* monitor_metric[4:] if it starts with "val_", else monitor_metric
MonitorKey(monitor_metric) ==
    IF Len(monitor_metric) >= 4 /\ SubSeq(monitor_metric, 1, 4) = "val_"
    THEN SubSeq(monitor_metric, 5, Len(monitor_metric))
    ELSE monitor_metric

\* the arguments validation_step passes to calculate_all_metrics:
\* (model_outputs, targets), the model returning all four head outputs
ValidationMetricsCall(batch) ==
    [outputs |-> OutputKeys,
     returns |-> [given |-> FALSE, series |-> <<>>],
     weights |-> NoWeights,
     num_assets |-> 3,
     batch_size |-> 2,
     targets_shape |-> "matrix",
     predicted |-> batch.predicted,
     true_regimes |-> [given |-> FALSE, classes |-> {}]]

\* the "metrics" entry of what validation_step returns for a batch
ValidationStepMetrics(self, batch) ==
    [k \in DOMAIN AllMetrics(self, ValidationMetricsCall(batch)) |-> batch.level]

\* whether [batch["metrics"][metric_name] for batch in outputs] raises
\* KeyError for a key of the first batch
SomeBatchLacksKey(outputs) ==
    \E k \in DOMAIN outputs[1], b \in 1..Len(outputs) : k \notin DOMAIN outputs[b]

\* all_metrics: np.mean over the batches, for every key of the first batch
AveragedMetrics(outputs) ==
    [k \in DOMAIN outputs[1] |->
        SeqSum([b \in 1..Len(outputs) |-> outputs[b][k]]) \div Len(outputs)]

\* "mode == max and current > best" / "mode == min and current < best"
ImprovesWhenGreater(mode, current_value, best) == current_value > best
Improves(mode, current_value, best) ==
    \/ mode = "max" /\ current_value > best
    \/ mode = "min" /\ current_value < best

\* self.best_metric_value after the best-model check
CheckedBest(cfg, all_metrics, best) ==
    LET monitor_key == MonitorKey(cfg.monitor_metric)
    IN  IF monitor_key \in DOMAIN all_metrics
           /\ Improves(cfg.mode, all_metrics[monitor_key], best)
        THEN all_metrics[monitor_key]
        ELSE best

\* ---- inputs explored ----
ValConfigs ==
    [monitor_metric : {"val_sharpe_ratio", "val_mse", "regime_bull_ratio"},
     mode : {"max", "min"}]
\* a batch: the regime classes its samples are predicted to be in, and its level
ValBatches == [predicted : {{0}, {2}}, level : {2, 6}]
BatchCounts == {1, 2}

NoValConfig == [monitor_metric |-> "", mode |-> "none"]
NoHook == [hook |-> "none", status |-> "none"]

\* no validation loop is part of the run
ValIdle ==
    /\ val_cfg = NoValConfig
    /\ val_pc = "idle"
    /\ val_outputs = <<>>
    /\ best_metric_value = 0
    /\ val_last = NoHook

\* the module as constructed
ValInit ==
    /\ val_cfg \in ValConfigs
    /\ val_pc = "running"
    /\ val_outputs = <<>>
    /\ best_metric_value = InitialBest(val_cfg.mode)
    /\ val_last = NoHook

\* validation_step (test_step returns the same) on one batch; the trainer
\* collects what it returns
ValidationStep(self, batch) ==
    /\ val_pc = "running"
    /\ Len(val_outputs) + 1 \in BatchCounts
    /\ val_outputs' = Append(val_outputs, ValidationStepMetrics(self, batch))
    /\ UNCHANGED <<val_cfg, val_pc, best_metric_value, val_last>>

\* validation_epoch_end(outputs) on the outputs collected this epoch
ValidationEpochEnd ==
    /\ val_pc = "running"
    /\ val_outputs # <<>>
    /\ IF SomeBatchLacksKey(val_outputs)
       THEN /\ val_pc' = "crashed"
            /\ val_last' = [hook |-> "validation_epoch_end", status |-> "KeyError"]
            /\ UNCHANGED <<best_metric_value, trackerVars>>
       ELSE /\ Update(AveragedMetrics(val_outputs))
            /\ best_metric_value' =
                  CheckedBest(val_cfg, AveragedMetrics(val_outputs), best_metric_value)
            /\ val_last' = [hook |-> "validation_epoch_end", status |-> "completed"]
            /\ UNCHANGED val_pc
    /\ val_outputs' = <<>>
    /\ UNCHANGED val_cfg

\* test_epoch_end(outputs) on the outputs collected by test_step
TestEpochEnd ==
    /\ val_pc = "running"
    /\ val_outputs # <<>>
    /\ IF SomeBatchLacksKey(val_outputs)
       THEN /\ val_pc' = "crashed"
            /\ val_last' = [hook |-> "test_epoch_end", status |-> "KeyError"]
       ELSE /\ val_last' = [hook |-> "test_epoch_end", status |-> "completed"]
            /\ UNCHANGED val_pc
    /\ val_outputs' = <<>>
    /\ UNCHANGED <<val_cfg, best_metric_value, trackerVars>>

ValNext ==
    \/ \E batch \in ValBatches :
          ValidationStep([risk_free_rate |-> DefaultRiskFreeRate, trading_cost |-> 1], batch)
          /\ UNCHANGED <<trackerVars, modelVars, lossVars, recVars, finVars, allVars, cfgVars, headVars, repVars, warmVars, dataVars>>
    \/ ValidationEpochEnd
       /\ UNCHANGED <<modelVars, lossVars, recVars, finVars, allVars, cfgVars, headVars, repVars, warmVars, dataVars>>
    \/ TestEpochEnd
       /\ UNCHANGED <<modelVars, lossVars, recVars, finVars, allVars, cfgVars, headVars, repVars, warmVars, dataVars>>

(***************************************************************************)
(* FinancialDataset._create_sequences, FinancialDataPreprocessor           *)
(* .create_sequences and FinancialDataset._create_data_splits.  Rows and   *)
(* sequences are known by their 0-based index; split fractions are whole   *)
(* percents.                                                               *)
(***************************************************************************)
\* the row indices of data[start:stop] for an array of the given length and
\* 0 <= start: a slice stops at the end of the array
Slice(length, start, stop) ==
    LET end == IF stop < length THEN stop ELSE length
    IN  IF end <= start THEN <<>> ELSE [k \in 1..(end - start) |-> start + k - 1]

\* range(count) of the sliding-window loop
WindowCountIgnoringHorizon(data_length, sequence_length, prediction_horizon) ==
    data_length - sequence_length + 1
WindowCount(data_length, sequence_length, prediction_horizon) ==
    data_length - (sequence_length + prediction_horizon) + 1

\* the window that starts at row i
Window(data_length, sequence_length, prediction_horizon, i) ==
    [inputs |-> Slice(data_length, i, i + sequence_length),
     target |-> Slice(data_length, i + sequence_length,
                      i + sequence_length + prediction_horizon)]

\* range(0, count, stride) as a sequence
StridedRange(count, stride) ==
    IF count <= 0 THEN <<>>
    ELSE [k \in 1..(((count - 1) \div stride) + 1) |-> (k - 1) * stride]

\* _create_sequences (stride 1) and create_sequences (configurable stride)
CreateSequences(data_length, sequence_length, prediction_horizon, stride) ==
    IF data_length < sequence_length + prediction_horizon
    THEN [raised |-> "ValueError", sequences |-> <<>>]
    ELSE LET starts == StridedRange(WindowCount(data_length, sequence_length,
                                                prediction_horizon), stride)
         IN  [raised |-> "none",
              sequences |-> [k \in 1..Len(starts) |->
                               Window(data_length, sequence_length, prediction_horizon,
                                      starts[k])]]

\* int(n * (1 - split)): the whole part of the exact product, or one less when
\* the exact product is a whole number that the floating-point product falls
\* just short of (1 - 0.9 is 0.0999..., 10 * 0.0999... is 0.999...)
IntCandidates(n, keep_percent) ==
    LET exact == (n * keep_percent) \div Percent
    IN  {exact} \cup (IF /\ (n * keep_percent) % Percent = 0
                         /\ exact >= 1
                         /\ keep_percent \notin {0, Percent}
                      THEN {exact - 1} ELSE {})

\* test_start = int(n_samples * (1 - self.test_split))
TestStartCandidates(n_samples, test_split) == IntCandidates(n_samples, Percent - test_split)

\* val_start = int(test_start * (1 - self.validation_split))
ValStartOfAllSamples(n_samples, test_start, validation_split) ==
    IntCandidates(n_samples, Percent - validation_split)
ValStartCandidates(n_samples, test_start, validation_split) ==
    IntCandidates(test_start, Percent - validation_split)

\* _temporal_split(indices) with the two split points
TemporalSplit(n_samples, val_start, test_start) ==
    [raised |-> "none",
     train |-> Slice(n_samples, 0, val_start),
     val |-> Slice(n_samples, val_start, test_start),
     test |-> Slice(n_samples, test_start, n_samples)]

\* ---- inputs explored ----
SplitPercents == {0, 10, 20, 50, 100}
SplitCalls ==
    [op : {"create_data_splits"}, n_samples : 0..(2 * MaxRows),
     validation_split : SplitPercents, test_split : SplitPercents,
     regime_aware : BOOLEAN]
SequenceCalls ==
    {c \in [op : {"dataset_create_sequences", "preprocessor_create_sequences"},
            data_length : 0..MaxRows, sequence_length : 1..MaxSeqLen,
            prediction_horizon : {1, 2}, stride : {1, 2}] :
        c.op = "dataset_create_sequences" => c.stride = 1}

NoDataCall == [op |-> "none"]
NoDataOut == [raised |-> "none"]

\* no data preparation is part of the run
DataIdle ==
    /\ data_call = NoDataCall
    /\ data_pc = "done"
    /\ data_out = NoDataOut

\* a call about to run
DataInit ==
    /\ data_call \in SplitCalls \cup SequenceCalls
    /\ data_pc = "ready"
    /\ data_out = NoDataOut

\* FinancialDataset._create_sequences
DatasetCreateSequences ==
    /\ data_pc = "ready"
    /\ data_call.op = "dataset_create_sequences"
    /\ data_out' = CreateSequences(data_call.data_length, data_call.sequence_length,
                                   data_call.prediction_horizon, 1)
    /\ data_pc' = "done"
    /\ UNCHANGED data_call

\* FinancialDataPreprocessor.create_sequences
PreprocessorCreateSequences ==
    /\ data_pc = "ready"
    /\ data_call.op = "preprocessor_create_sequences"
    /\ data_out' = CreateSequences(data_call.data_length, data_call.sequence_length,
                                   data_call.prediction_horizon, data_call.stride)
    /\ data_pc' = "done"
    /\ UNCHANGED data_call

\* FinancialDataset._create_data_splits: _regime_aware_split falls back to
\* _temporal_split, so both branches run the same split
CreateDataSplits ==
    /\ data_pc = "ready"
    /\ data_call.op = "create_data_splits"
    /\ \E test_start \in TestStartCandidates(data_call.n_samples, data_call.test_split) :
          \E val_start \in ValStartCandidates(data_call.n_samples, test_start,
                                              data_call.validation_split) :
             data_out' = TemporalSplit(data_call.n_samples, val_start, test_start)
    /\ data_pc' = "done"
    /\ UNCHANGED data_call

DataNext ==
    \/ DatasetCreateSequences
       /\ UNCHANGED <<trackerVars, modelVars, lossVars, recVars, finVars, allVars, cfgVars, headVars, repVars, warmVars, valVars>>
    \/ PreprocessorCreateSequences
       /\ UNCHANGED <<trackerVars, modelVars, lossVars, recVars, finVars, allVars, cfgVars, headVars, repVars, warmVars, valVars>>
    \/ CreateDataSplits
       /\ UNCHANGED <<trackerVars, modelVars, lossVars, recVars, finVars, allVars, cfgVars, headVars, repVars, warmVars, valVars>>

(***************************************************************************)
(* Specifications: one per component, the other components at rest.        *)
(***************************************************************************)
InitRecRun ==
    RecInit /\ TrackerInit /\ ModelIdle /\ LossIdle /\ FinIdle /\ AllIdle /\ CfgIdle /\ HeadIdle /\ RepIdle /\ WarmIdle /\ ValIdle /\ DataIdle
SpecRec == InitRecRun /\ [][RecNext]_vars

InitTrackerRun ==
    TrackerInit /\ ModelIdle /\ LossIdle /\ RecIdle /\ FinIdle /\ AllIdle /\ CfgIdle /\ HeadIdle /\ RepIdle /\ WarmIdle /\ ValIdle /\ DataIdle
SpecTracker == InitTrackerRun /\ [][TrackerNext]_vars

InitModelRun ==
    ModelInit /\ TrackerInit /\ LossIdle /\ RecIdle /\ FinIdle /\ AllIdle /\ CfgIdle /\ HeadIdle /\ RepIdle /\ WarmIdle /\ ValIdle /\ DataIdle
SpecModel == InitModelRun /\ [][ModelNext]_vars

InitLossRun ==
    LossInit /\ TrackerInit /\ ModelIdle /\ RecIdle /\ FinIdle /\ AllIdle /\ CfgIdle /\ HeadIdle /\ RepIdle /\ WarmIdle /\ ValIdle /\ DataIdle
SpecLoss == InitLossRun /\ [][LossNext]_vars

InitFinRun ==
    FinInit /\ TrackerInit /\ ModelIdle /\ LossIdle /\ RecIdle /\ AllIdle /\ CfgIdle /\ HeadIdle /\ RepIdle /\ WarmIdle /\ ValIdle /\ DataIdle
SpecFin == InitFinRun /\ [][FinNext]_vars

InitAllRun ==
    AllInit /\ TrackerInit /\ ModelIdle /\ LossIdle /\ RecIdle /\ FinIdle /\ CfgIdle /\ HeadIdle /\ RepIdle /\ WarmIdle /\ ValIdle /\ DataIdle
SpecAll == InitAllRun /\ [][AllNext]_vars

InitCfgRun ==
    CfgInit /\ TrackerInit /\ ModelIdle /\ LossIdle /\ RecIdle /\ FinIdle /\ AllIdle /\ HeadIdle /\ RepIdle /\ WarmIdle /\ ValIdle /\ DataIdle
SpecCfg == InitCfgRun /\ [][CfgNext]_vars

InitHeadRun ==
    HeadInit /\ TrackerInit /\ ModelIdle /\ LossIdle /\ RecIdle /\ FinIdle /\ AllIdle /\ CfgIdle /\ RepIdle /\ WarmIdle /\ ValIdle /\ DataIdle
SpecHead == InitHeadRun /\ [][HeadNext]_vars

InitRepeatRun ==
    RepInit /\ TrackerInit /\ ModelIdle /\ LossIdle /\ RecIdle /\ FinIdle /\ AllIdle /\ CfgIdle /\ HeadIdle /\ WarmIdle /\ ValIdle /\ DataIdle
SpecRepeat == InitRepeatRun /\ [][RepNext]_vars

InitWarmupRun ==
    WarmInit /\ TrackerInit /\ ModelIdle /\ LossIdle /\ RecIdle /\ FinIdle /\ AllIdle /\ CfgIdle /\ HeadIdle /\ RepIdle /\ ValIdle /\ DataIdle
SpecWarmup == InitWarmupRun /\ [][WarmNext]_vars

InitValidationRun ==
    ValInit /\ TrackerInit /\ ModelIdle /\ LossIdle /\ RecIdle /\ FinIdle /\ AllIdle /\ CfgIdle /\ HeadIdle /\ RepIdle /\ WarmIdle /\ DataIdle
SpecValidation == InitValidationRun /\ [][ValNext]_vars

InitDataRun ==
    DataInit /\ TrackerInit /\ ModelIdle /\ LossIdle /\ RecIdle /\ FinIdle /\ AllIdle /\ CfgIdle /\ HeadIdle /\ RepIdle /\ WarmIdle /\ ValIdle
SpecData == InitDataRun /\ [][DataNext]_vars

(***************************************************************************)
(* Claims about MetricsTracker, checked under SpecTracker.                 *)
(***************************************************************************)
\* the metrics bundle held by a history entry: the entry without its epoch
BundleOf(entry) == [k \in (DOMAIN entry) \ {"epoch"} |-> entry[k]]

\* a bundle's primary metric as the specification words it
ClaimedPrimary(b) ==
    IF "sharpe_ratio" \in DOMAIN b THEN b["sharpe_ratio"]
    ELSE IF "f1" \in DOMAIN b THEN b["f1"] ELSE ZeroMetric

\* C2: after any sequence of update calls (each bundle carrying sharpe_ratio
\* or f1), best_metrics is a recorded bundle whose primary metric (sharpe_ratio
\* if present, otherwise f1) is the highest of all recorded bundles, and
\* best_epoch is the epoch of that bundle.
C2_BestIsHighestPrimary ==
    (/\ Len(epoch_metrics) > 0
     /\ \A j \in 1..Len(epoch_metrics) : BundleOf(epoch_metrics[j]) # EmptyDict)
    => \E i \in 1..Len(epoch_metrics) :
          /\ best_metrics = BundleOf(epoch_metrics[i])
          /\ best_epoch = epoch_metrics[i]["epoch"]
          /\ \A j \in 1..Len(epoch_metrics) :
                ClaimedPrimary(BundleOf(epoch_metrics[j]))
                    <= ClaimedPrimary(BundleOf(epoch_metrics[i]))

\* the history holds, in call order, exactly the epoch and the metric values
\* of every update call made so far
C3_HistoryMatchesCalls ==
    /\ Len(epoch_metrics) = Len(calls)
    /\ \A i \in 1..Len(calls) :
          /\ epoch_metrics[i]["epoch"] = calls[i][1]
          /\ BundleOf(epoch_metrics[i]) = calls[i][2]

\* no step (update, get_metrics_dataframe, save_metrics) removes or changes
\* an entry that is already in the history
C3_NeverEdited ==
    [][/\ Len(epoch_metrics') >= Len(epoch_metrics)
       /\ \A i \in 1..Len(epoch_metrics) : epoch_metrics'[i] = epoch_metrics[i]]_vars

\* C3: the metrics history is append-only: after n update calls it has exactly
\* n entries in call order, the i-th holding the epoch and metric values of the
\* i-th call, and no later update, get_metrics_dataframe or save_metrics
\* changes or removes an earlier entry.
C3_AppendOnly == []C3_HistoryMatchesCalls /\ C3_NeverEdited

\* two updates with a save and a frame read taken between them
C3_Witness ==
    /\ Len(epoch_metrics) >= 2
    /\ csv.built /\ Len(csv.rows) = 1
    /\ df.built /\ Len(df.rows) = 1

(***************************************************************************)
(* Claims about the scoring model, checked under SpecModel.                *)
(***************************************************************************)
\* the four tensors have the configured trailing dimensions and one common,
\* positive time dimension
CorrectlyShaped(input) ==
    /\ \A g \in Groups : input.feat[g] = InputDims[g]
    /\ \A g \in Groups : input.time[g] = input.time["price"]
    /\ input.time["price"] >= 1

\* C4: for every d_model divisible by 4 the widths of the four sub-embeddings
\* (price, volume, technical, fundamental) sum to exactly d_model, so the
\* concatenation has the width the fusion projection expects and a forward
\* pass on correctly shaped input succeeds.
C4_WidthsSumToDModel ==
    (model.d_model > 0 /\ model.d_model % 4 = 0)
    => /\ ConcatWidth(model.encoder) = model.d_model
       /\ (fwd.status # "none" /\ CorrectlyShaped(fwd.input)) => fwd.status = "ok"

\* m is the T x T matrix that blocks (i, j) exactly when j > i
IsCausalMask(m, T) ==
    /\ DOMAIN m = (0..(T - 1)) \X (0..(T - 1))
    /\ \A i \in 0..(T - 1) : \A j \in 0..(T - 1) :
          /\ j > i => m[<<i, j>>] = NegInf
          /\ j <= i => m[<<i, j>>] = 0

\* C5: for every sequence length T >= 1, create_attention_mask(T) is a T x T
\* matrix whose entry (i, j) is -inf exactly when j > i and 0 otherwise (so
\* position i attends to exactly the positions <= i); for T = 1 the single
\* entry is unmasked. The same holds of the mask a successful forward() builds.
C5_CausalMask ==
    /\ mask.built => /\ mask.seq_len >= 1
                     /\ IsCausalMask(mask.m, mask.seq_len)
    /\ fwd.status = "ok" => IsCausalMask(fwd.mask, fwd.seq_len)

\* a direct call with T = 1 whose single entry is 0, and a forward pass with
\* T = 3 whose mask blocks (0, 2)
C5_Witness ==
    /\ mask.built /\ mask.seq_len = 1 /\ mask.m[<<0, 0>>] = 0
    /\ fwd.status = "ok" /\ fwd.seq_len = 3
    /\ fwd.mask[<<0, 2>>] = NegInf /\ fwd.mask[<<2, 0>>] = 0

\* C18: a forward call whose sequence length is 0 ends in an error, and that
\* error is raised before the causal attention mask is constructed.
C18_EmptySequenceRejectedBeforeMask ==
    (fwd.status # "none" /\ fwd.seq_len = 0)
    => /\ fwd.status # "ok"
       /\ ~fwd.mask_built

\* some feature tensor's trailing dimension differs from the configured size,
\* or the groups' time dimensions differ
Misshaped(input) ==
    \/ \E g \in Groups : input.feat[g] # InputDims[g]
    \/ \E g, h \in Groups : input.time[g] # input.time[h]

\* C19: a forward call on misshaped input (a trailing dimension other than
\* 1, 1, 20, 15 for price, volume, technical, fundamental, or differing time
\* dimensions) fails with a dimension-mismatch error that is raised before
\* the projection of any group has been computed.
C19_MisshapedFailsBeforeProjection ==
    (fwd.status # "none" /\ Misshaped(fwd.input))
    => /\ fwd.status \in {"dim_error", "cat_error"}
       /\ fwd.projected = {}

\* C10: for every choice of construction parameters, save_model followed by
\* load_model rebuilds a model with the same value of every one of the eight
\* parameters as the saved model.
C10_ReloadKeepsParameters ==
    loaded.status # "none"
    => /\ loaded.status = "ok"
       /\ \A n \in ParamNames : loaded.model.arch[n] = model.arch[n]

(***************************************************************************)
(* Claims about the loss combiner, checked under SpecLoss.                 *)
(***************************************************************************)
\* the sum of f over the finite set S
RECURSIVE SumOver(_, _)
SumOver(S, f) ==
    IF S = {} THEN 0
    ELSE LET x == CHOOSE y \in S : TRUE IN f[x] + SumOver(S \ {x}, f)

\* the weight name the specification pairs with each component loss
ClaimedWeightName ==
    [recommendation_loss |-> "recommendation", confidence_loss |-> "confidence",
     risk_loss |-> "risk", regime_loss |-> "regime"]

\* the components the specification calls present for a set of head outputs:
\* recommendation always, the others only when their output is there
ClaimedPresent(outputs) ==
    {"recommendation_loss"}
    \cup (IF "confidence" \in outputs THEN {"confidence_loss"} ELSE {})
    \cup (IF "risk_scores" \in outputs THEN {"risk_loss"} ELSE {})
    \cup (IF "regime_probs" \in outputs THEN {"regime_loss"} ELSE {})

\* C1: for every set of head outputs, the bundle _compute_total_loss returns
\* holds exactly the present component losses plus total_loss, and total_loss
\* is the sum over the present components of configured weight * loss; with
\* the default weights {1.0, 0.3, 0.2, 0.1} and component losses 1.0, 2.0,
\* 3.0, 4.0 the total is 2.6.
C1_TotalIsWeightedSum ==
    (loss_call.op = "compute_total_loss" /\ loss_pc = "done")
    => LET present == ClaimedPresent(loss_call.outputs)
       IN  /\ DOMAIN loss_out = present \cup {"total_loss"}
           /\ \A n \in present : loss_out[n] = loss_call.component[n]
           /\ (/\ \A n \in present : ClaimedWeightName[n] \in DOMAIN loss_weights
               /\ \A n \in present : IsFinite(loss_call.component[n]))
              => loss_out["total_loss"] =
                   SumOver(present, [n \in present |->
                       loss_weights[ClaimedWeightName[n]] * loss_call.component[n]])
           /\ (/\ loss_weights = [recommendation |-> 10, confidence |-> 3,
                                   risk |-> 2, regime |-> 1]
               /\ present = ComponentNames
               /\ loss_call.component = [recommendation_loss |-> 1, confidence_loss |-> 2,
                                         risk_loss |-> 3, regime_loss |-> 4])
              => loss_out["total_loss"] = 26

\* Scenario E has run: default weights, all four components, losses 1, 2, 3, 4
C1_Witness ==
    /\ loss_call.op = "compute_total_loss" /\ loss_pc = "done"
    /\ loss_weights = DefaultLossWeights
    /\ loss_call.outputs = {"recommendations", "confidence", "risk_scores", "regime_probs"}
    /\ loss_call.component = [recommendation_loss |-> 1, confidence_loss |-> 2,
                              risk_loss |-> 3, regime_loss |-> 4]
    /\ loss_out["total_loss"] = 26

\* C17: when a component loss computed inside _compute_total_loss is
\* non-finite (nan, +inf or -inf), the returned bundle still holds every
\* present component under its name with the value computed, the non-finite
\* one included, and total_loss is non-finite too, whatever the weights.
C17_NonFinitePropagates ==
    (/\ loss_call.op = "compute_total_loss" /\ loss_pc = "done"
     /\ \E n \in DOMAIN loss_call.component : loss_call.component[n] \in NonFinite)
    => /\ DOMAIN loss_out = DOMAIN loss_call.component \cup {"total_loss"}
       /\ \A n \in DOMAIN loss_call.component : loss_out[n] = loss_call.component[n]
       /\ loss_out["total_loss"] \in NonFinite

\* a bundle was returned for an infinite risk loss whose configured weight is 0.0
C17_Witness ==
    /\ loss_call.op = "compute_total_loss" /\ loss_pc = "done"
    /\ "risk_loss" \in DOMAIN loss_call.component
    /\ loss_call.component["risk_loss"] = LossInf
    /\ \A n \in DOMAIN loss_call.component : n # "risk_loss" => loss_call.component[n] = 1
    /\ DictGet(loss_weights, "risk", FallbackWeight) = 0
    /\ loss_out["total_loss"] = LossNaN

\* the sum over the assets of |prediction - target| of sample i of a call
ClaimedAbsSum(call, i) ==
    SumOver(1..Len(call.predictions[i]),
            [a \in 1..Len(call.predictions[i]) |->
                IF call.predictions[i][a] >= call.targets[i][a]
                THEN call.predictions[i][a] - call.targets[i][a]
                ELSE call.targets[i][a] - call.predictions[i][a]])

\* C21: in _calculate_confidence_loss the target confidence of each sample is
\* 1 / (1 + e), e the mean absolute error of the sample's recommendations
\* against its target; for e = 1.0 the target is 0.5, a predicted confidence
\* of 0.5 then contributes squared error 0, and the loss of a batch of such
\* samples is 0.
C21_ConfidenceTarget ==
    (loss_pc = "done" /\ loss_call.op = "confidence_loss")
    => /\ \A i \in 1..Len(loss_call.predictions) :
             LET n == Len(loss_call.predictions[i])
                 abs_sum == ClaimedAbsSum(loss_call, i)
                 target == loss_out.target_confidence[i]
             IN  /\ target.den > 0
                 /\ target.num * (n + abs_sum) = n * target.den
                 /\ abs_sum = n => 2 * target.num = target.den
                 /\ (abs_sum = n /\ 2 * loss_call.confidence[i] = ConfidenceUnit)
                       => loss_out.squared[i].num = 0
       /\ (\A i \in 1..Len(loss_call.predictions) :
               /\ ClaimedAbsSum(loss_call, i) = Len(loss_call.predictions[i])
               /\ 2 * loss_call.confidence[i] = ConfidenceUnit)
            => loss_out.loss.num = 0
       /\ loss_out.loss.num = 0
            <=> \A i \in 1..Len(loss_call.predictions) : loss_out.squared[i].num = 0

\* two samples of mean absolute error 1.0 (two assets, absolute errors summing
\* to 2) with predicted confidence 0.5: target 0.5, loss 0
C21_Witness ==
    /\ loss_pc = "done" /\ loss_call.op = "confidence_loss"
    /\ Len(loss_call.predictions) = 2
    /\ \A i \in 1..2 : ClaimedAbsSum(loss_call, i) = 2 /\ loss_call.confidence[i] = 2
    /\ loss_call.predictions[1] # loss_call.predictions[2]
    /\ loss_out.target_confidence[1] = [num |-> 2, den |-> 4]
    /\ loss_out.loss.num = 0

\* C6: every sample gets exactly one regime label in {0, 1, 2}: bull (0) iff
\* mean > 0.001 and std < 0.03; bear (1) iff mean < -0.001 and std > 0.02;
\* sideways (2) in every other case. The boundary values fail the strict
\* comparison they bound: mean = 0.001 and mean = -0.001 are sideways,
\* std = 0.03 is never bull and std = 0.02 is never bear. (0.005, 0.01) is
\* bull, (-0.005, 0.05) is bear and (0.0, 0.01) is sideways.
C6_RegimeLabels ==
    (loss_call.op = "regime_loss" /\ loss_pc = "done")
    => /\ Len(loss_out.regime_labels) = Len(loss_call.stats)
       /\ \A i \in 1..Len(loss_call.stats) :
            LET mean == loss_call.stats[i].mean
                std == loss_call.stats[i].std
                label == loss_out.regime_labels[i]
                bull == mean > 1 /\ std < 30
                bear == mean < -1 /\ std > 20
            IN  /\ label \in {0, 1, 2}
                /\ label = 0 <=> bull
                /\ label = 1 <=> bear
                /\ label = 2 <=> (~bull /\ ~bear)
                /\ (mean = 1 \/ mean = -1) => label = 2
                /\ std = 30 => label # 0
                /\ std = 20 => label # 1
                /\ (mean = 5 /\ std = 10) => label = 0
                /\ (mean = -5 /\ std = 50) => label = 1
                /\ (mean = 0 /\ std = 10) => label = 2

\* a batch holding a boundary sample (mean 0.001, std 0.01) labelled sideways
\* and the bear sample of Scenario C
C6_Witness ==
    /\ loss_call.op = "regime_loss" /\ loss_pc = "done"
    /\ \E i, j \in 1..Len(loss_call.stats) :
          /\ loss_call.stats[i] = [mean |-> 1, std |-> 10]
          /\ loss_out.regime_labels[i] = 2
          /\ loss_call.stats[j] = [mean |-> -5, std |-> 50]
          /\ loss_out.regime_labels[j] = 1

\* the descending rank position (1 = largest) of asset j in the vector x
DescendingRank(x, j) == 1 + Cardinality({k \in 1..Len(x) : x[k] > x[j]})

\* C8: for each sample with n >= 2 tie-free assets, the ranking term is
\* 1 - rho with rho = 1 - 6 * sum_j (rank_pred(j) - rank_target(j))^2
\* / (n * (n^2 - 1)), rank_x(j) being the descending rank of asset j in x.
C8_RankingTermIsSpearman ==
    (loss_call.op = "recommendation_loss" /\ loss_pc = "done")
    => \A i \in 1..Len(loss_call.predictions) :
          LET pred == loss_call.predictions[i]
              target == loss_call.targets[i]
              n == Len(pred)
          IN  /\ loss_out.terms[i].den = n * (n * n - 1)
              /\ loss_out.terms[i].num =
                    6 * SumOver(1..n, [j \in 1..n |->
                            (DescendingRank(pred, j) - DescendingRank(target, j))
                            * (DescendingRank(pred, j) - DescendingRank(target, j))])

(***************************************************************************)
(* Claims about the recommendation metrics, checked under SpecRec.         *)
(***************************************************************************)
\* the targets have the recommendations' shape
WellShaped(call) ==
    /\ Len(call.targets) = Len(call.recommendations)
    /\ \A i \in 1..Len(call.recommendations) :
          Len(call.targets[i]) = Len(call.recommendations[i])

\* the asset (1-based) with the largest target value
BestActual(target) == CHOOSE j \in 1..Len(target) : \A k \in 1..Len(target) : target[k] <= target[j]

\* C7: each sample contributes 1/r to mrr, r being the 1-based position of the
\* sample's best actual asset in the descending order of its recommendation
\* scores; hence mrr = 1.0 whenever the best actual asset is the
\* top-recommended asset in every sample.
C7_MrrUsesDescendingRank ==
    (rec_pc = "done" /\ rec_metrics.path # "none" /\ WellShaped(rec_call))
    => LET recs == rec_call.recommendations
           tgts == rec_call.targets
           B == Len(recs)
           unit == Factorial(Len(recs[1]))
           r == [i \in 1..B |-> DescendingRank(recs[i], BestActual(tgts[i]))]
       IN  /\ rec_metrics.mrr.den = unit * B
           /\ rec_metrics.mrr.num = SumOver(1..B, [i \in 1..B |-> unit \div r[i]])
           /\ (\A i \in 1..B : r[i] = 1) => rec_metrics.mrr.num = rec_metrics.mrr.den

\* the k assets with the largest scores in x
TopKSet(x, k) == {j \in 1..Len(x) : DescendingRank(x, j) <= k}

AllZero(metrics) ==
    /\ DOMAIN metrics # {}
    /\ \A k \in DOMAIN metrics : metrics[k] = Zero

\* the number of valid (non-NaN) returns of a series
ValidCount(returns) == Cardinality({t \in 1..Len(returns) : returns[t] # NanReturn})

\* trading costs are on and the turnover vector of the weights neither has one
\* entry per valid return after the first nor a single entry
TurnoverMismatch(call) ==
    /\ call.trading_costs
    /\ Len(call.weights) > 1
    /\ Len(call.weights) - 1 # ValidCount(call.returns) - 1
    /\ Len(call.weights) - 1 # 1

\* C11: calculate_financial_performance_metrics always returns a bundle and
\* never lets an exception out: for a series with no valid return (length 0,
\* or empty once the NaN entries are removed) and for a computation error (a
\* weights array or turnover vector whose length does not fit the valid
\* returns) the bundle returned is a default bundle whose every value is 0.0.
C11_NeverPropagates ==
    fin_pc = "done"
    => /\ fin_out.path \in {"normal", "empty", "error"}
       /\ ValidCount(fin_call.returns) = 0
            => fin_out.path = "empty" /\ AllZero(fin_out.metrics)
       /\ (ValidCount(fin_call.returns) > 0 /\ TurnoverMismatch(fin_call))
            => fin_out.path = "error" /\ AllZero(fin_out.metrics)
       /\ fin_out.path \in {"empty", "error"} => AllZero(fin_out.metrics)

\* the in-place subtraction raised (three weight rows, two valid returns) and
\* the zero bundle came back
C11_Witness ==
    /\ fin_pc = "done"
    /\ fin_call.returns = <<1, NanReturn, 3>>
    /\ Len(fin_call.weights) = 3
    /\ fin_call.trading_costs
    /\ fin_out.path = "error"
    /\ fin_out.metrics["sharpe_ratio"] = Zero

\* the position, among the valid returns, of period t of the series (t from 1)
ValidPosition(returns, t) == Cardinality({u \in 1..t : returns[u] # NanReturn})

\* turnover of period t > 1 (the second period onwards): the sum over the
\* assets of |weight[t] - weight[t-1]|
ClaimedTurnover(weights, t) ==
    SumOver(1..Len(weights[t]),
            [a \in 1..Len(weights[t]) |-> Abs(weights[t][a] - weights[t - 1][a])])

\* C13: with trading costs enabled and one weight row per period, the return
\* the metrics are computed from is, for every period after the first, the
\* period's return minus turnover * trading_cost, and for the first period the
\* return itself; with costs disabled or no weights every return is used as is.
C13_CostsReducePeriodReturns ==
    (/\ fin_pc = "done" /\ fin_out.path = "normal"
     /\ fin_call.weights # NoWeights => Len(fin_call.weights) = Len(fin_call.returns))
    => \A t \in 1..Len(fin_call.returns) :
          fin_call.returns[t] # NanReturn
          => fin_out.portfolio_returns[ValidPosition(fin_call.returns, t)] =
               IF fin_call.trading_costs /\ fin_call.weights # NoWeights /\ t > 1
               THEN fin_call.returns[t]
                    - ClaimedTurnover(fin_call.weights, t) * fin_call.self.trading_cost
               ELSE fin_call.returns[t]

\* a / b = c / d for b, d > 0
FracEq(a, b, c, d) == ~FracLess(a, b, c, d) /\ ~FracLess(c, d, a, b)

\* the cumulative curve C_t = prod over u <= t of (1 + r_u), as a numerator
\* over Percent ** t
RECURSIVE Growth(_, _)
Growth(r, t) == IF t = 0 THEN 1 ELSE Growth(r, t - 1) * (Percent + r[t])

\* C_t / C_s - 1 for s <= t, the decline from the value at s to the value at t:
\* numerator and denominator over Percent ** t
Decline(r, s, t) ==
    [num |-> Growth(r, t) - Growth(r, s) * Pow(Percent, t - s),
     den |-> Growth(r, s) * Pow(Percent, t - s)]

\* C14: max_drawdown is the minimum over the periods t of (C_t - M_t) / M_t,
\* with C the cumulative product of (1 + r) and M its running maximum, i.e.
\* the worst decline C_t / C_s - 1 over s <= t; it is <= 0, and 0 exactly when
\* the curve never falls below an earlier value. For returns 0.01, -0.02, 0.03
\* it is -0.02 and total_return is 1.01 * 0.98 * 1.03 - 1.
C14_MaxDrawdown ==
    (fin_pc = "done" /\ fin_out.path = "normal")
    => LET r == fin_out.portfolio_returns
           n == Len(r)
           mdd == fin_out.metrics["max_drawdown"]
           total == fin_out.metrics["total_return"]
           pairs == {st \in (1..n) \X (1..n) : st[1] <= st[2]}
       IN  /\ mdd.den > 0 /\ mdd.num <= 0
           /\ \A st \in pairs :
                 ~FracLess(Decline(r, st[1], st[2]).num, Decline(r, st[1], st[2]).den,
                           mdd.num, mdd.den)
           /\ \E st \in pairs :
                 FracEq(Decline(r, st[1], st[2]).num, Decline(r, st[1], st[2]).den,
                        mdd.num, mdd.den)
           /\ mdd.num = 0 <=> \A st \in pairs : Decline(r, st[1], st[2]).num >= 0
           /\ r = <<1, -2, 3>>
                => /\ FracEq(mdd.num, mdd.den, -2, 100)
                   /\ FracEq(total.num, total.den, 101 * 98 * 103 - 1000000, 1000000)

\* the metrics of the returns 0.01, -0.02, 0.03 were computed
C14_Witness ==
    /\ fin_pc = "done" /\ fin_out.path = "normal"
    /\ fin_out.portfolio_returns = <<1, -2, 3>>
    /\ fin_out.metrics["max_drawdown"].num < 0

\* C15: sortino_ratio is +infinity when no return is negative and the excess
\* return (annualized return - risk-free rate) is positive, 0 when no return
\* is negative and the excess return is not positive, and otherwise the excess
\* return divided by the annualized standard deviation of the negative returns
\* alone, 0 if that deviation is 0.
C15_Sortino ==
    (fin_pc = "done" /\ fin_out.path = "normal")
    => LET r == fin_out.portfolio_returns
           negative == {t \in 1..Len(r) : r[t] < 0}
           excess == Annualized(r, fin_call.self.risk_free_rate)
           deviation == AnnualizedStd(SelectSeq(r, LAMBDA v : v < 0))
           sortino == fin_out.metrics["sortino_ratio"]
       IN  IF negative = {}
           THEN sortino = (IF IsPositive(excess) THEN PosInfinity ELSE Zero)
           ELSE sortino = (IF deviation.num = 0 THEN Zero ELSE Quotient(excess, deviation))

\* a series without a negative return and with positive excess return got
\* +infinity, a zero return among its entries
C15_Witness ==
    /\ fin_pc = "done" /\ fin_out.path = "normal"
    /\ fin_out.portfolio_returns = <<1, 0>>
    /\ fin_out.metrics["sortino_ratio"] = PosInfinity

\* C16: for every non-empty return series no ratio metric is a division by
\* zero: sharpe_ratio is 0 whenever the annualized volatility is 0,
\* calmar_ratio is 0 whenever max_drawdown is 0, and a ratio that is a
\* quotient has a non-zero denominator.
C16_NoDivisionByZero ==
    (fin_pc = "done" /\ fin_out.path = "normal")
    => LET m == fin_out.metrics
       IN  /\ m["volatility"].num = 0 => m["sharpe_ratio"] = Zero
           /\ m["max_drawdown"].num = 0 => m["calmar_ratio"] = Zero
           /\ \A k \in {"sharpe_ratio", "calmar_ratio", "sortino_ratio"} :
                 m[k].kind = "quotient" => m[k].denom.num # 0

\* a constant series: volatility 0 and max_drawdown 0, both ratios 0
C16_Witness ==
    /\ fin_pc = "done" /\ fin_out.path = "normal"
    /\ fin_out.portfolio_returns = <<1, 1>>
    /\ fin_out.metrics["volatility"].num = 0
    /\ fin_out.metrics["sharpe_ratio"] = Zero
    /\ fin_out.metrics["calmar_ratio"] = Zero

(***************************************************************************)
(* Claims about calculate_all_metrics, checked under SpecAll.              *)
(***************************************************************************)
\* the metric names the specification lists for each group
ClaimedGroupKeys ==
    [financial |->
        {"total_return", "annualized_return", "volatility", "sharpe_ratio", "max_drawdown",
         "calmar_ratio", "var_95", "var_99", "cvar_95", "sortino_ratio",
         "information_ratio", "tracking_error"},
     prediction |->
        {"mse", "mae", "rmse", "r2", "accuracy", "precision", "recall", "f1",
         "confidence_accuracy_corr", "avg_confidence"},
     recommendation |->
        {"precision_at_5", "precision_at_10", "precision_at_20", "ndcg_20",
         "hit_rate_5", "hit_rate_10", "mrr"},
     risk |->
        {"avg_risk_score", "risk_score_std", "risk_score_entropy", "risk_concentration",
         "risk_volatility_correlation"},
     regime |->
        {"avg_regime_confidence", "regime_entropy", "regime_accuracy",
         "regime_bull_ratio", "regime_bear_ratio", "regime_sideways_ratio",
         "regime_bull_precision", "regime_bear_precision", "regime_sideways_precision",
         "regime_bull_recall", "regime_bear_recall", "regime_sideways_recall"}]

\* the input that each group requires
GroupInputPresent(call) ==
    [financial |-> call.returns.given,
     prediction |-> "recommendations" \in call.outputs,
     recommendation |-> "recommendations" \in call.outputs,
     risk |-> "risk_scores" \in call.outputs,
     regime |-> "regime_probs" \in call.outputs]

\* C12: the bundle calculate_all_metrics returns holds keys of a metric group
\* if and only if the group's required input is present (a return series for
\* the financial group, 'recommendations' for prediction and recommendation
\* quality, 'risk_scores' for risk, 'regime_probs' for regime); every key was
\* written by its own group, and an absent group contributes no key.
C12_GroupsFollowInputs ==
    all_pc = "done"
    => /\ \A g \in DOMAIN ClaimedGroupKeys :
             (DOMAIN all_out \cap ClaimedGroupKeys[g] # {}) <=> GroupInputPresent(all_call)[g]
       /\ \A k \in DOMAIN all_out :
             /\ all_out[k] \in DOMAIN ClaimedGroupKeys
             /\ k \in ClaimedGroupKeys[all_out[k]]

\* all four head outputs and no return series: prediction keys, no financial key
C12_Witness ==
    /\ all_pc = "done"
    /\ all_call.outputs = OutputKeys
    /\ ~all_call.returns.given
    /\ "mse" \in DOMAIN all_out
    /\ "regime_entropy" \in DOMAIN all_out
    /\ "total_return" \notin DOMAIN all_out

(***************************************************************************)
(* Claims about configuration names, checked under SpecCfg.                *)
(***************************************************************************)
\* the values of a constructor call that are not supported names
UnsupportedValues(call) ==
    IF call.class = "FinancialLightningModule"
    THEN (IF Lower(call.names["optimizer"]) \in KnownOptimizers
          THEN {} ELSE {call.names["optimizer"]})
         \cup (IF Lower(call.names["scheduler"]) \in KnownSchedulers
               THEN {} ELSE {call.names["scheduler"]})
    ELSE ({call.names[p] : p \in {"price_scaler_type", "volume_scaler_type",
                                   "ratio_scaler_type"}} \ KnownScalers)
         \cup ({call.names["imputation_strategy"]} \ KnownImputers)

\* C20: a constructor call that passes an unknown optimizer or scheduler name
\* (training module) or an unknown scaler or imputer name (preprocessor) does
\* not produce an object: construction raises a configuration error that
\* names an unsupported value, and the error is not a key lookup failure.
C20_UnknownNameRejectedAtConstruction ==
    (cfg_pc # "ready" /\ UnsupportedValues(cfg_call) # {})
    => /\ ~cfg_out.constructed
       /\ cfg_out.error.raised_in = "__init__"
       /\ cfg_out.error.type \notin {"none", "KeyError"}
       /\ cfg_out.error.names \in UnsupportedValues(cfg_call)

(***************************************************************************)
(* Claims about the prediction heads, checked under SpecHead.              *)
(***************************************************************************)
PolyMul(p, q) ==
    [k \in 1..(Len(p) + Len(q) - 1) |->
        SumOver(1..Len(p), [i \in 1..Len(p) |-> p[i] * Coef(q, k - i + 1)])]

\* equal as polynomials
PolyEq(p, q) == \A k \in 1..(Len(p) + Len(q)) : Coef(p, k) = Coef(q, k)

\* the sum of a sequence of quotients of polynomials, as one quotient
RECURSIVE QuotientSum(_)
QuotientSum(fs) ==
    IF fs = <<>> THEN [num |-> <<>>, den |-> <<1>>]
    ELSE LET rest == QuotientSum(Tail(fs))
         IN  [num |-> PolyAdd(PolyMul(Head(fs).num, rest.den),
                              PolyMul(rest.num, Head(fs).den)),
              den |-> PolyMul(Head(fs).den, rest.den)]

SumsToOne(fs) == PolyEq(QuotientSum(fs).num, QuotientSum(fs).den)

\* a polynomial without negative coefficients is >= 0 at u > 0, and > 0 when
\* one coefficient is positive
NonNegative(f) ==
    /\ \A k \in 1..Len(f.num) : f.num[k] >= 0
    /\ \A k \in 1..Len(f.den) : f.den[k] >= 0
    /\ \E k \in 1..Len(f.den) : f.den[k] > 0

\* den - num has no negative coefficient
AtMostOne(f) == \A k \in 1..(Len(f.num) + Len(f.den)) : Coef(f.num, k) <= Coef(f.den, k)

\* C23: for every batch of final-timestep representations given to the
\* prediction heads, each sample's recommendations, risk_scores and
\* regime_probs are non-negative and sum to 1 along the class axis, and its
\* confidence lies in [0, 1].
C23_HeadsAreDistributions ==
    head_pc = "done"
    => \A b \in 1..Len(head_call.recommendation_head) :
          /\ \A key \in {"recommendations", "risk_scores", "regime_probs"} :
                /\ Len(head_out[key]) = Len(head_call.recommendation_head)
                /\ \A c \in 1..Len(head_out[key][b]) : NonNegative(head_out[key][b][c])
                /\ SumsToOne(head_out[key][b])
          /\ Len(head_out.recommendations[b]) = Len(head_call.recommendation_head[b])
          /\ Len(head_out.risk_scores[b]) = Len(head_call.risk_head[b])
          /\ Len(head_out.regime_probs[b]) = Len(head_call.regime_head[b])
          /\ NonNegative(head_out.confidence[b][1])
          /\ AtMostOne(head_out.confidence[b][1])

\* a batch of two samples with different recommendation logits went through
\* the heads: the first sample's weights are exp(-2) / (1 + exp(-2)) and
\* 1 / (1 + exp(-2))
C23_Witness ==
    /\ head_pc = "done"
    /\ head_call.recommendation_head = <<<<-1, 1>>, <<1, 1>>>>
    /\ head_out.recommendations[1][1] = [num |-> <<0, 0, 1>>, den |-> <<1, 0, 1>>]
    /\ head_out.recommendations[2][1] = [num |-> <<1>>, den |-> <<2>>]
    /\ head_call.confidence_head[1] = <<-1>>
    /\ head_out.confidence[1][1] = [num |-> <<0, 1>>, den |-> <<1, 1>>]

(***************************************************************************)
(* Claims about the keys of the financial-performance bundle, checked      *)
(* under SpecFin.                                                          *)
(***************************************************************************)
BaseKeys ==
    {"total_return", "annualized_return", "volatility", "sharpe_ratio", "max_drawdown",
     "calmar_ratio", "var_95", "var_99", "cvar_95", "sortino_ratio"}

\* C28: every bundle calculate_financial_performance_metrics returns, on the
\* normal path, on the empty-series path and on the error path, holds every
\* key of the base key set.
C28_SameBaseKeys ==
    fin_pc = "done" => BaseKeys \subseteq DOMAIN fin_out.metrics

BaseRate(cfg, g) == IF g = 1 THEN cfg.learning_rate ELSE 2 * cfg.learning_rate

\* C27: with warmup_epochs = W > 0, at the end of epoch e < W every parameter
\* group's learning rate is base * (e + 1) / W, and once epochs 0 .. W-1 have
\* ended it is the configured base rate (learning_rate for the backbone
\* group, 2 * learning_rate for the head group).
C27_WarmupReachesBaseRate ==
    (warm_pc = "training" /\ warm_cfg.warmup_epochs > 0 /\ warm_epoch > 0)
    => \A g \in 1..Len(warm_lr) :
          /\ Len(warm_lr) = 2
          /\ warm_epoch <= warm_cfg.warmup_epochs
               => warm_lr[g].num * warm_cfg.warmup_epochs
                    = BaseRate(warm_cfg, g) * warm_epoch * warm_lr[g].den
          /\ warm_epoch >= warm_cfg.warmup_epochs
               => warm_lr[g].num = BaseRate(warm_cfg, g) * warm_lr[g].den

(***************************************************************************)
(* Claims about the validation loop, checked under SpecValidation.         *)
(***************************************************************************)
\* C24: validation_epoch_end and test_epoch_end complete without error for
\* every non-empty list of batch outputs produced by validation_step, also
\* when the batches report different metric key sets (a regime class
\* predicted in the first batch and in no sample of a later one).
C24_EpochEndCompletes ==
    val_last.hook \in {"validation_epoch_end", "test_epoch_end"}
    => val_last.status = "completed" /\ val_pc = "running"

\* C25: with monitor_metric 'val_sharpe_ratio' and mode 'max', after the
\* first validation epoch with at least one batch the monitored key is among
\* the averaged metrics and best_metric_value is that epoch's averaged value,
\* no longer -infinity.
C25_DefaultMonitorIsTracked ==
    (/\ val_cfg = [monitor_metric |-> "val_sharpe_ratio", mode |-> "max"]
     /\ Len(calls) = 1)
    => /\ "sharpe_ratio" \in DOMAIN calls[1][2]
       /\ best_metric_value = calls[1][2]["sharpe_ratio"]
       /\ best_metric_value # NegInf

\* the monitored key without the "val_" prefix
ClaimedMonitorKey ==
    IF val_cfg.monitor_metric = "val_sharpe_ratio" THEN "sharpe_ratio"
    ELSE IF val_cfg.monitor_metric = "val_mse" THEN "mse"
    ELSE val_cfg.monitor_metric

\* the values of the monitored metric in the validation epochs that had it
MonitoredSoFar ==
    {calls[e][2][ClaimedMonitorKey] :
        e \in {i \in 1..Len(calls) : ClaimedMonitorKey \in DOMAIN calls[i][2]}}

ClaimedInitial == IF val_cfg.mode = "max" THEN NegInf ELSE BestPosInf

\* C26: across validation epochs best_metric_value never worsens (never
\* decreases in mode 'max', never increases in mode 'min'); after each epoch
\* it is the best value of the monitored metric among the initial value and
\* all epochs so far that had the monitored key, and an epoch without the key
\* leaves it unchanged.
C26_BestIsBestSoFar ==
    /\ [](val_pc # "idle"
          => LET candidates == MonitoredSoFar \cup {ClaimedInitial}
             IN  /\ best_metric_value \in candidates
                 /\ \A v \in candidates :
                       IF val_cfg.mode = "max" THEN best_metric_value >= v
                       ELSE best_metric_value <= v)
    /\ [][/\ val_cfg.mode = "max" => best_metric_value' >= best_metric_value
          /\ val_cfg.mode = "min" => best_metric_value' <= best_metric_value
          /\ (Len(calls') = Len(calls) + 1
              /\ ClaimedMonitorKey \notin DOMAIN calls'[Len(calls')][2])
               => best_metric_value' = best_metric_value]_vars

\* mode 'min' on mse: the first epoch averaged 2, the second 4, and the best
\* value stayed 2
C26_Witness ==
    /\ val_cfg = [monitor_metric |-> "val_mse", mode |-> "min"]
    /\ Len(calls) = 2
    /\ calls[1][2]["mse"] = 2
    /\ calls[2][2]["mse"] = 4
    /\ best_metric_value = 2

(***************************************************************************)
(* Claims about sequences and splits, checked under SpecData.              *)
(***************************************************************************)
\* the set of the entries of a sequence
Elements(q) == {q[k] : k \in 1..Len(q)}

ClaimedStarts(call) ==
    {i \in 0..call.data_length :
        /\ i % call.stride = 0
        /\ i + call.sequence_length + call.prediction_horizon <= call.data_length}

\* C30: for data of N rows, sequence length L and horizon H, sequence creation
\* raises ValueError when N < L + H and otherwise returns one sequence per
\* start offset i (N - L - H + 1 of them at stride 1), whose inputs are
\* exactly the rows i .. i+L-1 and whose target is exactly the rows
\* i+L .. i+L+H-1: every target row follows every input row and every row
\* index is within 0 .. N-1.
C30_SequencesDoNotLeak ==
    (data_pc = "done"
     /\ data_call.op \in {"dataset_create_sequences", "preprocessor_create_sequences"})
    => LET N == data_call.data_length
           L == data_call.sequence_length
           H == data_call.prediction_horizon
           sequences == data_out.sequences
       IN  IF N < L + H
           THEN data_out.raised = "ValueError" /\ sequences = <<>>
           ELSE /\ data_out.raised = "none"
                /\ Len(sequences) = Cardinality(ClaimedStarts(data_call))
                /\ data_call.stride = 1 => Len(sequences) = N - L - H + 1
                /\ \A k \in 1..Len(sequences) :
                      LET i == (k - 1) * data_call.stride
                      IN  /\ sequences[k].inputs = [j \in 1..L |-> i + j - 1]
                          /\ sequences[k].target = [j \in 1..H |-> i + L + j - 1]
                          /\ \A a \in Elements(sequences[k].inputs),
                                b \in Elements(sequences[k].target) : a < b
                          /\ Elements(sequences[k].inputs) \cup Elements(sequences[k].target)
                                \subseteq 0..(N - 1)

\* five rows, L = 2, H = 2: two sequences, the last one reaching the final row
C30_Witness ==
    /\ data_pc = "done" /\ data_call.op = "dataset_create_sequences"
    /\ data_call.data_length = 5 /\ data_call.sequence_length = 2
    /\ data_call.prediction_horizon = 2
    /\ Len(data_out.sequences) = 2
    /\ data_out.sequences[2] = [inputs |-> <<1, 2>>, target |-> <<3, 4>>]

====
